---- MODULE Spec2Model ----
(***************************************************************************)
(* The in-memory banking ledger: AccountEntity, TransactionEntity and the  *)
(* two BankingService variants of the repository (the plain one and the    *)
(* company-aware one).                                                      *)
(*                                                                          *)
(* Strings that the code inspects character by character (account          *)
(* numbers) are sequences of one-character strings.  Amounts and balances  *)
(* are JavaScript numbers; the model ranges over integer values.           *)
(* AccountEntity objects live in a heap (a sequence; the index is the      *)
(* object's identity) and the service's Map holds references to them, as   *)
(* the constructor stores the caller's objects themselves.                 *)
(***************************************************************************)
EXTENDS Integers, Sequences, FiniteSets, TLC

VARIABLES
    tenantAware,  \* TRUE: the company-aware BankingService; FALSE: the plain one
    heap,         \* the AccountEntity objects, by reference
    accounts,     \* BankingService.accounts: the Map, entries in insertion order
    call,         \* the last call made on the service: arguments, outcome, heap before it
    initial,      \* history: the balance of each object when the service was constructed
    net,          \* history: per object, credits minus debits of the successful transfers
    run           \* the run of main: its position, its input list, what it has logged

vars == <<tenantAware, heap, accounts, call, initial, net, run>>

(***************************************************************************)
(* Bounds of the model                                                     *)
(***************************************************************************)
MaxBalance == 1     \* initial balances range over -1..MaxBalance
MaxAmount == 2      \* amounts range over -1..MaxAmount

(***************************************************************************)
(* Input values                                                            *)
(***************************************************************************)
ACC_A == <<"1","1","1","1","2","3","4","5","2","2","2","2","6","7","8","9">>
ACC_B == <<"2","2","2","2","1","2","3","4","3","3","3","3","1","2","1","2">>
BAD_SHORT == <<"1","2","3","4","5">>
BAD_ALPHA == <<"1","2","3","a","b","c","4","5","6","7","8","9","0","1","2","3">>

AccountNumbers == {ACC_A, ACC_B}
AnyNumbers == {ACC_A, ACC_B, BAD_SHORT}
AnyStrings == {ACC_A, ACC_B, BAD_SHORT, BAD_ALPHA}
AccountCompanyIds == {"alpha-sales", "beta-sales"}
CompanyIds == AccountCompanyIds \cup {"gamma-sales"}
Balances == (0 - 1)..MaxBalance
Amounts == (0 - 1)..MaxAmount

Digits == {"0","1","2","3","4","5","6","7","8","9"}
AccountNumberLength == 16

(***************************************************************************)
(* Outcomes of a call: a return value or a thrown error.  An error is its  *)
(* name and the parts its message is built from, in order.                 *)
(***************************************************************************)
Return(v) == [kind |-> "return", value |-> v]
Void == [kind |-> "return", value |-> "undefined"]
Throw(name, message) == [kind |-> "throw", name |-> name, message |-> message]

AccountNotFoundError(accountNumber) ==
    Throw("AccountNotFoundError", <<"Account not found: ", accountNumber>>)

InsufficientFundsError(accountNumber, amount, balance) ==
    Throw("InsufficientFundsError",
          <<"Insufficient funds in account ", accountNumber,
            ". Required: ", amount, ", Available: ", balance>>)

CompanyMismatchError(expected, actual) ==
    Throw("CompanyMismatchError", <<"expected: ", expected, "actual: ", actual>>)

Error(message) == Throw("Error", <<message>>)

ZodError(issues) == Throw("ZodError", <<"issues", issues>>)

(***************************************************************************)
(* Schemas                                                                 *)
(***************************************************************************)
\* z.string().length(16).regex(/^\d+$/)
IsAccountNumber(s) ==
    /\ Len(s) = AccountNumberLength
    /\ Len(s) >= 1
    /\ \A i \in 1..Len(s) : s[i] \in Digits

\* the issues of one account-number field: one for the length check, one for the
\* regex check, each under the field's path
AccountNumberIssues(s, path) ==
    (IF Len(s) = AccountNumberLength THEN <<>> ELSE <<path>>)
    \o (IF Len(s) >= 1 /\ \A i \in 1..Len(s) : s[i] \in Digits THEN <<>> ELSE <<path>>)

\* faulty variant of AccountIssues: a balance of 0 is refused
AccountIssuesRefusesZero(account) ==
    AccountNumberIssues(account.accountNumber, "accountNumber")
    \o (IF account.balance > 0 THEN <<>> ELSE <<"balance">>)
    \o (IF "companyId" \in DOMAIN account THEN <<>> ELSE <<"companyId">>)

\* the paths of the issues AccountSchema.parse reports, in schema order; a field
\* the data lacks is a field the record lacks
AccountIssues(account) ==
    AccountNumberIssues(account.accountNumber, "accountNumber")
    \o (IF account.balance >= 0 THEN <<>> ELSE <<"balance">>)
    \o (IF "companyId" \in DOMAIN account /\ account.companyId \in STRING
        THEN <<>> ELSE <<"companyId">>)

AccountSchema(account) == AccountIssues(account) = <<>>

\* the plain variant's schema: the same without companyId
AccountSchemaPlain(account) ==
    /\ IsAccountNumber(account.accountNumber)
    /\ account.balance >= 0

\* faulty variant of TransactionIssues: an amount of 0 is accepted
TransactionIssuesNonNegative(transaction) ==
    AccountNumberIssues(transaction.fromAccount, "fromAccount")
    \o AccountNumberIssues(transaction.toAccount, "toAccount")
    \o (IF transaction.amount >= 0 THEN <<>> ELSE <<"amount">>)

\* the paths of the issues TransactionSchema.parse reports, in schema order
TransactionIssues(transaction) ==
    AccountNumberIssues(transaction.fromAccount, "fromAccount")
    \o AccountNumberIssues(transaction.toAccount, "toAccount")
    \o (IF transaction.amount > 0 THEN <<>> ELSE <<"amount">>)

TransactionSchema(transaction) == TransactionIssues(transaction) = <<>>

(***************************************************************************)
(* AccountEntity                                                           *)
(***************************************************************************)
\* faulty variants of canWithdraw: one too generous, one refusing the exact balance
canWithdrawOffByOne(account, amount) == account.balance + 1 >= amount

canWithdrawStrict(account, amount) == account.balance > amount

canWithdraw(account, amount) == account.balance >= amount

\* faulty variant of withdraw: it returns without debiting
withdrawNothing(account, amount) ==
    IF ~canWithdraw(account, amount)
    THEN [account |-> account, outcome |-> Error("Insufficient funds")]
    ELSE [account |-> account, outcome |-> Void]

withdraw(account, amount) ==
    IF ~canWithdraw(account, amount)
    THEN [account |-> account, outcome |-> Error("Insufficient funds")]
    ELSE [account |-> [account EXCEPT !.balance = @ - amount], outcome |-> Void]

\* faulty variant of deposit: the credit is applied twice
depositTwice(account, amount) == [account EXCEPT !.balance = @ + amount + amount]

\* faulty variant of deposit: the credit is lost
depositNothing(account, amount) == account

deposit(account, amount) == [account EXCEPT !.balance = @ + amount]

(***************************************************************************)
(* The Map of the service                                                  *)
(***************************************************************************)
Undefined == 0

MapHas(m, key) == \E i \in 1..Len(m) : m[i].key = key

MapGet(m, key) ==
    IF MapHas(m, key)
    THEN m[CHOOSE i \in 1..Len(m) : m[i].key = key].value
    ELSE Undefined

\* faulty variant of MapSet: the first value set for a key stays
MapSetKeepsFirst(m, key, value) ==
    IF MapHas(m, key) THEN m ELSE Append(m, [key |-> key, value |-> value])

\* Map.prototype.set: an existing key keeps its place and takes the new value
MapSet(m, key, value) ==
    IF MapHas(m, key)
    THEN [i \in 1..Len(m) |-> IF m[i].key = key THEN [key |-> key, value |-> value] ELSE m[i]]
    ELSE Append(m, [key |-> key, value |-> value])

RECURSIVE BankingServiceConstructor(_, _)
\* initialAccounts.forEach(account => accounts.set(account.getAccountNumber(), account)),
\* from the n-th object of the heap on
BankingServiceConstructor(objects, n) ==
    IF n = 0 THEN <<>>
    ELSE MapSet(BankingServiceConstructor(objects, n - 1), objects[n].accountNumber, n)

(***************************************************************************)
(* BankingService, plain variant (src/services/BankingService.ts).  Every  *)
(* operation maps the Map and the heap to the heap it leaves and its       *)
(* outcome.                                                                *)
(***************************************************************************)
\* faulty variant of processTransaction: the source is debited before the
\* destination is looked up
processTransactionDebitFirst(accts, objects, transaction) ==
    LET fromAccount == MapGet(accts, transaction.fromAccount)
        toAccount == MapGet(accts, transaction.toAccount)
    IN  IF fromAccount = Undefined
        THEN [heap |-> objects, outcome |-> AccountNotFoundError(transaction.fromAccount)]
        ELSE IF ~canWithdraw(objects[fromAccount], transaction.amount)
        THEN [heap |-> objects,
              outcome |-> InsufficientFundsError(objects[fromAccount].accountNumber,
                                                 transaction.amount,
                                                 objects[fromAccount].balance)]
        ELSE LET afterWithdraw == [objects EXCEPT ![fromAccount] =
                                      withdraw(objects[fromAccount], transaction.amount).account]
             IN  IF toAccount = Undefined
                 THEN [heap |-> afterWithdraw,
                       outcome |-> AccountNotFoundError(transaction.toAccount)]
                 ELSE [heap |-> [afterWithdraw EXCEPT ![toAccount] =
                                    deposit(afterWithdraw[toAccount], transaction.amount)],
                       outcome |-> Void]

processTransaction(accts, objects, transaction) ==
    LET fromAccount == MapGet(accts, transaction.fromAccount)
        toAccount == MapGet(accts, transaction.toAccount)
    IN  IF fromAccount = Undefined \/ toAccount = Undefined
        THEN [heap |-> objects,
              outcome |-> AccountNotFoundError(IF fromAccount = Undefined
                                               THEN transaction.fromAccount
                                               ELSE transaction.toAccount)]
        ELSE IF ~canWithdraw(objects[fromAccount], transaction.amount)
        THEN [heap |-> objects,
              outcome |-> InsufficientFundsError(objects[fromAccount].accountNumber,
                                                 transaction.amount,
                                                 objects[fromAccount].balance)]
        ELSE LET w == withdraw(objects[fromAccount], transaction.amount)
                 afterWithdraw == [objects EXCEPT ![fromAccount] = w.account]
             IN  IF w.outcome.kind = "throw"
                 THEN [heap |-> afterWithdraw, outcome |-> w.outcome]
                 ELSE [heap |-> [afterWithdraw EXCEPT ![toAccount] =
                                    deposit(afterWithdraw[toAccount], transaction.amount)],
                       outcome |-> Void]

\* faulty variant of getAccountBalance: reading the balance costs a fee of 1
getAccountBalanceForFee(accts, objects, accountNumber) ==
    LET account == MapGet(accts, accountNumber)
    IN  IF account = Undefined
        THEN [heap |-> objects, outcome |-> AccountNotFoundError(accountNumber)]
        ELSE [heap |-> [objects EXCEPT ![account].balance = @ - 1],
              outcome |-> Return(objects[account].balance)]

getAccountBalance(accts, objects, accountNumber) ==
    LET account == MapGet(accts, accountNumber)
    IN  IF account = Undefined
        THEN [heap |-> objects, outcome |-> AccountNotFoundError(accountNumber)]
        ELSE [heap |-> objects, outcome |-> Return(objects[account].balance)]

\* faulty variant of getAllAccounts: accounts holding less come first
getAllAccountsByBalance(accts, objects) ==
    LET below(k) == Cardinality({j \in 1..Len(accts) :
                        \/ objects[accts[j].value].balance < objects[accts[k].value].balance
                        \/ /\ objects[accts[j].value].balance = objects[accts[k].value].balance
                           /\ j < k})
    IN  [heap |-> objects,
         outcome |-> Return([i \in 1..Len(accts) |->
                        accts[CHOOSE k \in 1..Len(accts) : below(k) = i - 1].value])]

\* Array.from(this.accounts.values()): the objects themselves, in the Map's order
getAllAccounts(accts, objects) ==
    [heap |-> objects, outcome |-> Return([i \in 1..Len(accts) |-> accts[i].value])]

\* faulty variants of transfer.  Each differs from transfer in one check and
\* is otherwise the amount check followed by processTransaction's steps.
transferAsTransaction(accts, objects, fromAccountNumber, toAccountNumber, amount) ==
    IF amount <= 0
    THEN [heap |-> objects, outcome |-> Error("Amount must be greater than 0")]
    ELSE processTransaction(accts, objects,
                            [fromAccount |-> fromAccountNumber,
                             toAccount |-> toAccountNumber, amount |-> amount])

\* the destination is reported when both accounts are absent
transferNamesDestination(accts, objects, fromAccountNumber, toAccountNumber, amount) ==
    IF amount > 0 /\ ~MapHas(accts, toAccountNumber)
    THEN [heap |-> objects, outcome |-> AccountNotFoundError(toAccountNumber)]
    ELSE transferAsTransaction(accts, objects, fromAccountNumber, toAccountNumber, amount)

\* the explicit funds check is missing: withdraw's own error surfaces
transferWithoutFundsCheck(accts, objects, fromAccountNumber, toAccountNumber, amount) ==
    IF /\ amount > 0
       /\ MapHas(accts, fromAccountNumber) /\ MapHas(accts, toAccountNumber)
       /\ objects[MapGet(accts, fromAccountNumber)].balance < amount
    THEN [heap |-> objects,
          outcome |-> withdraw(objects[MapGet(accts, fromAccountNumber)], amount).outcome]
    ELSE transferAsTransaction(accts, objects, fromAccountNumber, toAccountNumber, amount)

\* the amount is checked after the lookups
transferLooksUpFirst(accts, objects, fromAccountNumber, toAccountNumber, amount) ==
    IF ~MapHas(accts, fromAccountNumber) \/ ~MapHas(accts, toAccountNumber)
    THEN [heap |-> objects,
          outcome |-> AccountNotFoundError(IF ~MapHas(accts, fromAccountNumber)
                                           THEN fromAccountNumber
                                           ELSE toAccountNumber)]
    ELSE transferAsTransaction(accts, objects, fromAccountNumber, toAccountNumber, amount)

transfer(accts, objects, fromAccountNumber, toAccountNumber, amount) ==
    IF amount <= 0
    THEN [heap |-> objects, outcome |-> Error("Amount must be greater than 0")]
    ELSE
    LET fromAccount == MapGet(accts, fromAccountNumber)
        toAccount == MapGet(accts, toAccountNumber)
    IN  IF fromAccount = Undefined \/ toAccount = Undefined
        THEN [heap |-> objects,
              outcome |-> AccountNotFoundError(IF fromAccount = Undefined
                                               THEN fromAccountNumber
                                               ELSE toAccountNumber)]
        ELSE IF objects[fromAccount].balance < amount
        THEN [heap |-> objects,
              outcome |-> InsufficientFundsError(objects[fromAccount].accountNumber,
                                                 amount,
                                                 objects[fromAccount].balance)]
        ELSE LET w == withdraw(objects[fromAccount], amount)
                 afterWithdraw == [objects EXCEPT ![fromAccount] = w.account]
             IN  IF w.outcome.kind = "throw"
                 THEN [heap |-> afterWithdraw, outcome |-> w.outcome]
                 ELSE [heap |-> [afterWithdraw EXCEPT ![toAccount] =
                                    deposit(afterWithdraw[toAccount], amount)],
                       outcome |-> Void]

(***************************************************************************)
(* BankingService, company-aware variant                                   *)
(***************************************************************************)
processTransactionCo(accts, objects, transaction) ==
    LET fromAccount == MapGet(accts, transaction.fromAccount)
        toAccount == MapGet(accts, transaction.toAccount)
    IN  IF fromAccount = Undefined \/ toAccount = Undefined
        THEN [heap |-> objects,
              outcome |-> AccountNotFoundError(IF fromAccount = Undefined
                                               THEN transaction.fromAccount
                                               ELSE transaction.toAccount)]
        ELSE IF \/ objects[fromAccount].companyId # transaction.companyId
                \/ objects[toAccount].companyId # transaction.companyId
        THEN [heap |-> objects,
              outcome |-> CompanyMismatchError(
                              transaction.companyId,
                              IF objects[fromAccount].companyId # transaction.companyId
                              THEN objects[fromAccount].companyId
                              ELSE objects[toAccount].companyId)]
        ELSE IF ~canWithdraw(objects[fromAccount], transaction.amount)
        THEN [heap |-> objects,
              outcome |-> InsufficientFundsError(objects[fromAccount].accountNumber,
                                                 transaction.amount,
                                                 objects[fromAccount].balance)]
        ELSE LET w == withdraw(objects[fromAccount], transaction.amount)
                 afterWithdraw == [objects EXCEPT ![fromAccount] = w.account]
             IN  IF w.outcome.kind = "throw"
                 THEN [heap |-> afterWithdraw, outcome |-> w.outcome]
                 ELSE [heap |-> [afterWithdraw EXCEPT ![toAccount] =
                                    deposit(afterWithdraw[toAccount], transaction.amount)],
                       outcome |-> Void]

\* faulty variant of getAccountBalanceCo: expected and actual are exchanged
getAccountBalanceCoSwapped(accts, objects, accountNumber, companyId) ==
    LET account == MapGet(accts, accountNumber)
    IN  IF account = Undefined
        THEN [heap |-> objects, outcome |-> AccountNotFoundError(accountNumber)]
        ELSE IF objects[account].companyId # companyId
        THEN [heap |-> objects,
              outcome |-> CompanyMismatchError(objects[account].companyId, companyId)]
        ELSE [heap |-> objects, outcome |-> Return(objects[account].balance)]

getAccountBalanceCo(accts, objects, accountNumber, companyId) ==
    LET account == MapGet(accts, accountNumber)
    IN  IF account = Undefined
        THEN [heap |-> objects, outcome |-> AccountNotFoundError(accountNumber)]
        ELSE IF objects[account].companyId # companyId
        THEN [heap |-> objects,
              outcome |-> CompanyMismatchError(companyId, objects[account].companyId)]
        ELSE [heap |-> objects, outcome |-> Return(objects[account].balance)]

\* faulty variants of transferCo.  Each differs from transferCo in one check and
\* is otherwise the amount check followed by processTransactionCo's steps.
transferCoAsTransaction(accts, objects, fromAccountNumber, toAccountNumber, amount, companyId) ==
    IF amount <= 0
    THEN [heap |-> objects, outcome |-> Error("Amount must be greater than 0")]
    ELSE processTransactionCo(accts, objects,
                              [fromAccount |-> fromAccountNumber,
                               toAccount |-> toAccountNumber, amount |-> amount,
                               companyId |-> companyId])

\* the destination's company is reported when both accounts mismatch
transferCoNamesDestination(accts, objects, fromAccountNumber, toAccountNumber, amount, companyId) ==
    IF /\ amount > 0
       /\ MapHas(accts, fromAccountNumber) /\ MapHas(accts, toAccountNumber)
       /\ objects[MapGet(accts, toAccountNumber)].companyId # companyId
    THEN [heap |-> objects,
          outcome |-> CompanyMismatchError(
                          companyId, objects[MapGet(accts, toAccountNumber)].companyId)]
    ELSE transferCoAsTransaction(accts, objects, fromAccountNumber, toAccountNumber,
                                 amount, companyId)

\* the funds are checked before the companies
transferCoFundsFirst(accts, objects, fromAccountNumber, toAccountNumber, amount, companyId) ==
    IF /\ amount > 0
       /\ MapHas(accts, fromAccountNumber) /\ MapHas(accts, toAccountNumber)
       /\ objects[MapGet(accts, fromAccountNumber)].balance < amount
    THEN [heap |-> objects,
          outcome |-> InsufficientFundsError(
                          fromAccountNumber, amount,
                          objects[MapGet(accts, fromAccountNumber)].balance)]
    ELSE transferCoAsTransaction(accts, objects, fromAccountNumber, toAccountNumber,
                                 amount, companyId)

transferCo(accts, objects, fromAccountNumber, toAccountNumber, amount, companyId) ==
    IF amount <= 0
    THEN [heap |-> objects, outcome |-> Error("Amount must be greater than 0")]
    ELSE
    LET fromAccount == MapGet(accts, fromAccountNumber)
        toAccount == MapGet(accts, toAccountNumber)
    IN  IF fromAccount = Undefined \/ toAccount = Undefined
        THEN [heap |-> objects,
              outcome |-> AccountNotFoundError(IF fromAccount = Undefined
                                               THEN fromAccountNumber
                                               ELSE toAccountNumber)]
        ELSE IF \/ objects[fromAccount].companyId # companyId
                \/ objects[toAccount].companyId # companyId
        THEN [heap |-> objects,
              outcome |-> CompanyMismatchError(
                              companyId,
                              IF objects[fromAccount].companyId # companyId
                              THEN objects[fromAccount].companyId
                              ELSE objects[toAccount].companyId)]
        ELSE IF objects[fromAccount].balance < amount
        THEN [heap |-> objects,
              outcome |-> InsufficientFundsError(objects[fromAccount].accountNumber,
                                                 amount,
                                                 objects[fromAccount].balance)]
        ELSE LET w == withdraw(objects[fromAccount], amount)
                 afterWithdraw == [objects EXCEPT ![fromAccount] = w.account]
             IN  IF w.outcome.kind = "throw"
                 THEN [heap |-> afterWithdraw, outcome |-> w.outcome]
                 ELSE [heap |-> [afterWithdraw EXCEPT ![toAccount] =
                                    deposit(afterWithdraw[toAccount], amount)],
                       outcome |-> Void]

(***************************************************************************)
(* A caller obtains a TransactionEntity only from its constructor, which   *)
(* parses the data with the schema and throws on any issue.                *)
(***************************************************************************)
\* the company-aware TransactionSchema: the plain one plus companyId: z.string()
TransactionIssuesCo(transaction) ==
    TransactionIssues(transaction)
    \o (IF transaction.companyId \in STRING THEN <<>> ELSE <<"companyId">>)

\* bankingService.processTransaction(new TransactionEntity(data))
newThenProcess(accts, objects, data) ==
    IF TransactionIssues(data) # <<>>
    THEN [heap |-> objects, outcome |-> ZodError(TransactionIssues(data))]
    ELSE processTransaction(accts, objects, data)

newThenProcessCo(accts, objects, data) ==
    IF TransactionIssuesCo(data) # <<>>
    THEN [heap |-> objects, outcome |-> ZodError(TransactionIssuesCo(data))]
    ELSE processTransactionCo(accts, objects, data)

(***************************************************************************)
(* Initial state: a service constructed from a collection of valid         *)
(* accounts with distinct account numbers.                                 *)
(***************************************************************************)
AccountData(ta) ==
    IF ta
    THEN [accountNumber : AnyNumbers, balance : Balances, companyId : AccountCompanyIds]
    ELSE [accountNumber : AnyNumbers, balance : Balances]

\* the data new AccountEntity(data) accepts
ValidAccounts(ta) ==
    {a \in AccountData(ta) : IF ta THEN AccountSchema(a) ELSE AccountSchemaPlain(a)}

InitialCollections(ta) ==
    {s \in UNION {[1..n -> ValidAccounts(ta)] : n \in 0..Cardinality(AccountNumbers)} :
        \A i, j \in 1..Len(s) : i # j => s[i].accountNumber # s[j].accountNumber}

\* main is not running
NoRun == [pc |-> "none", transactions |-> <<>>, index |-> 0,
          attempted |-> <<>>, out |-> <<>>]

Init ==
    /\ tenantAware \in BOOLEAN
    /\ \E initialAccounts \in InitialCollections(tenantAware) :
          /\ heap = initialAccounts
          /\ accounts = BankingServiceConstructor(initialAccounts, Len(initialAccounts))
    /\ call = [op |-> "constructor", args |-> <<>>, outcome |-> Void, before |-> heap]
    /\ initial = [i \in 1..Len(heap) |-> heap[i].balance]
    /\ net = [i \in 1..Len(heap) |-> 0]
    /\ run = NoRun

(***************************************************************************)
(* Calls                                                                   *)
(***************************************************************************)
TransactionData(ta) ==
    IF ta
    THEN [fromAccount : AnyNumbers, toAccount : AnyNumbers, amount : Amounts,
          companyId : CompanyIds]
    ELSE [fromAccount : AnyNumbers, toAccount : AnyNumbers, amount : Amounts]

\* the history of a transfer that returned: the amount leaves the source, then
\* reaches the destination
Booked(log, accts, data) ==
    LET debited == [log EXCEPT ![MapGet(accts, data.fromAccount)] = @ - data.amount]
    IN  [debited EXCEPT ![MapGet(accts, data.toAccount)] = @ + data.amount]

Called(op, args, result) ==
    /\ heap' = result.heap
    /\ call' = [op |-> op, args |-> args, outcome |-> result.outcome, before |-> heap]
    /\ net' = IF op \in {"processTransaction", "transfer"} /\ result.outcome = Void
              THEN Booked(net, accounts, args)
              ELSE net
    /\ UNCHANGED <<tenantAware, accounts, initial, run>>

\* the entities new TransactionEntity(data) yields: the data the schema accepts
TransactionEntities(ta) ==
    {data \in TransactionData(ta) :
        (IF ta THEN TransactionIssuesCo(data) ELSE TransactionIssues(data)) = <<>>}

ProcessTransaction ==
    /\ ~tenantAware
    /\ \E transaction \in TransactionEntities(FALSE) :
          Called("processTransaction", transaction,
                 processTransaction(accounts, heap, transaction))

ProcessTransactionCo ==
    /\ tenantAware
    /\ \E transaction \in TransactionEntities(TRUE) :
          Called("processTransaction", transaction,
                 processTransactionCo(accounts, heap, transaction))

Transfer ==
    /\ ~tenantAware
    /\ \E data \in TransactionData(FALSE) :
          Called("transfer", data,
                 transfer(accounts, heap, data.fromAccount, data.toAccount, data.amount))

TransferCo ==
    /\ tenantAware
    /\ \E data \in TransactionData(TRUE) :
          Called("transfer", data,
                 transferCo(accounts, heap, data.fromAccount, data.toAccount,
                            data.amount, data.companyId))

GetAccountBalance ==
    /\ ~tenantAware
    /\ \E accountNumber \in AnyNumbers :
          Called("getAccountBalance", [accountNumber |-> accountNumber],
                 getAccountBalance(accounts, heap, accountNumber))

GetAccountBalanceCo ==
    /\ tenantAware
    /\ \E accountNumber \in AnyNumbers, companyId \in CompanyIds :
          Called("getAccountBalance",
                 [accountNumber |-> accountNumber, companyId |-> companyId],
                 getAccountBalanceCo(accounts, heap, accountNumber, companyId))

GetAllAccounts ==
    Called("getAllAccounts", <<>>, getAllAccounts(accounts, heap))

Next ==
    \/ ProcessTransaction
    \/ ProcessTransactionCo
    \/ Transfer
    \/ TransferCo
    \/ GetAccountBalance
    \/ GetAccountBalanceCo
    \/ GetAllAccounts

Spec == Init /\ [][Next]_vars

(***************************************************************************)
(* Vocabulary of the properties                                            *)
(***************************************************************************)
IsTransferCall == call.op \in {"processTransaction", "transfer"}
Returned == call.outcome.kind = "return"
Threw(name) == call.outcome.kind = "throw" /\ call.outcome.name = name
NothingChanged == heap = call.before

Has(accountNumber) == MapHas(accounts, accountNumber)
Source == MapGet(accounts, call.args.fromAccount)
Destination == MapGet(accounts, call.args.toAccount)
BothExist == Has(call.args.fromAccount) /\ Has(call.args.toAccount)
SourceMismatch == tenantAware /\ heap[Source].companyId # call.args.companyId
DestinationMismatch == tenantAware /\ heap[Destination].companyId # call.args.companyId
TenantsMatch == ~SourceMismatch /\ ~DestinationMismatch

ThrewAccountNotFound(accountNumber) ==
    /\ Threw("AccountNotFoundError")
    /\ call.outcome.message[2] = accountNumber

ThrewInsufficientFunds(accountNumber, amount, balance) ==
    /\ Threw("InsufficientFundsError")
    /\ call.outcome.message[2] = accountNumber
    /\ call.outcome.message[4] = amount
    /\ call.outcome.message[6] = balance

ThrewCompanyMismatch(expected, actual) ==
    /\ Threw("CompanyMismatchError")
    /\ call.outcome.message[2] = expected
    /\ call.outcome.message[4] = actual

ThrewAmountError ==
    /\ Threw("Error")
    /\ call.outcome.message = <<"Amount must be greater than 0">>

(***************************************************************************)
(* C1: in every state reachable from a service built from valid accounts   *)
(* by processTransaction, transfer, getAccountBalance and getAllAccounts   *)
(* calls, successful or failing, every account of the ledger has a         *)
(* balance >= 0.                                                           *)
(***************************************************************************)
C1_BalanceNeverNegative ==
    \A i \in 1..Len(accounts) : heap[accounts[i].value].balance >= 0

\* a transfer of the source's whole balance has returned and left the source at 0
C1_Witness ==
    /\ IsTransferCall /\ Returned
    /\ Source # Destination
    /\ call.before[Source].balance = call.args.amount
    /\ heap[Source].balance = 0

(***************************************************************************)
(* C2 as claimed: every processTransaction whose accounts both exist (and  *)
(* match the tenant) and whose source balance is >= amount returns, the    *)
(* source balance is then its old value minus amount, the destination      *)
(* balance its old value plus amount, and the sum of the two is unchanged. *)
(***************************************************************************)
C2_Applies ==
    /\ call.op = "processTransaction"
    /\ BothExist
    /\ TenantsMatch
    /\ call.before[Source].balance >= call.args.amount

C2_SumConserved ==
    heap[Source].balance + heap[Destination].balance
        = call.before[Source].balance + call.before[Destination].balance

C2_AsClaimed ==
    C2_Applies =>
        /\ Returned
        /\ heap[Source].balance = call.before[Source].balance - call.args.amount
        /\ heap[Destination].balance = call.before[Destination].balance + call.args.amount
        /\ C2_SumConserved

(***************************************************************************)
(* C2 amended: such a processTransaction returns and conserves the sum of  *)
(* the two balances; when source and destination are different accounts    *)
(* the source balance is its old value minus amount and the destination    *)
(* balance its old value plus amount; when they are the same account its   *)
(* balance is unchanged.                                                   *)
(***************************************************************************)
C2_TransferMovesAmount ==
    C2_Applies =>
        /\ Returned
        /\ C2_SumConserved
        /\ Source # Destination =>
              /\ heap[Source].balance = call.before[Source].balance - call.args.amount
              /\ heap[Destination].balance
                    = call.before[Destination].balance + call.args.amount
        /\ Source = Destination =>
              heap[Source].balance = call.before[Source].balance

\* a transfer between two different accounts has been applied
C2_Witness ==
    /\ C2_Applies /\ Returned
    /\ Source # Destination
    /\ heap[Destination].balance > call.before[Destination].balance

(***************************************************************************)
(* C3 as claimed: when processTransaction or transfer names a source or    *)
(* destination that is not in the ledger, it throws AccountNotFoundError   *)
(* and every balance is as before the call.                                *)
(***************************************************************************)
C3_AsClaimed ==
    (IsTransferCall /\ ~BothExist) =>
        /\ Threw("AccountNotFoundError")
        /\ NothingChanged

(***************************************************************************)
(* C3 amended: when processTransaction or transfer names a source or       *)
(* destination that is not in the ledger, every balance is as before the   *)
(* call; the call throws AccountNotFoundError when the amount is > 0, and  *)
(* transfer with an amount <= 0 throws the generic amount error instead.   *)
(***************************************************************************)
C3_AbsentAccountChangesNothing ==
    (IsTransferCall /\ ~BothExist) =>
        /\ NothingChanged
        /\ call.args.amount > 0 => Threw("AccountNotFoundError")
        /\ call.args.amount <= 0 => (call.op = "transfer" /\ ThrewAmountError)

\* the source exists and could pay, the destination is absent, the call threw
C3_Witness ==
    /\ IsTransferCall
    /\ Has(call.args.fromAccount) /\ ~Has(call.args.toAccount)
    /\ call.args.amount > 0
    /\ heap[Source].balance >= call.args.amount
    /\ Threw("AccountNotFoundError")

(***************************************************************************)
(* C4: the identifier AccountNotFoundError carries, from processTransaction*)
(* and from transfer, is the source number whenever the source is absent   *)
(* (also when both are absent), and the destination number only when the   *)
(* source exists and the destination is absent.                            *)
(***************************************************************************)
C4_NotFoundNamesFirstAbsent ==
    (IsTransferCall /\ Threw("AccountNotFoundError")) =>
        /\ ~BothExist
        /\ ~Has(call.args.fromAccount) => ThrewAccountNotFound(call.args.fromAccount)
        /\ Has(call.args.fromAccount) => ThrewAccountNotFound(call.args.toAccount)

\* both are absent and differ: the error names the source
C4_Witness ==
    /\ IsTransferCall
    /\ ~Has(call.args.fromAccount) /\ ~Has(call.args.toAccount)
    /\ call.args.fromAccount # call.args.toAccount
    /\ ThrewAccountNotFound(call.args.fromAccount)

(***************************************************************************)
(* C5: when both accounts exist (and match the tenant) and the source      *)
(* balance is less than the amount, processTransaction and transfer throw  *)
(* InsufficientFundsError with the source number, the requested amount and *)
(* the source's balance at the time of the call, and no balance changes.   *)
(***************************************************************************)
C5_InsufficientFunds ==
    (/\ IsTransferCall /\ BothExist /\ TenantsMatch
     /\ call.before[Source].balance < call.args.amount) =>
        /\ ThrewInsufficientFunds(call.args.fromAccount, call.args.amount,
                                  call.before[Source].balance)
        /\ NothingChanged

\* a source holding less than the amount, but not nothing, was asked to pay
C5_Witness ==
    /\ IsTransferCall /\ BothExist /\ TenantsMatch
    /\ call.before[Source].balance > 0
    /\ call.before[Source].balance < call.args.amount
    /\ Threw("InsufficientFundsError")

(***************************************************************************)
(* C6 as claimed: in the tenant-aware variant, when both accounts exist    *)
(* and the source's or the destination's tenant differs from the           *)
(* transfer's, processTransaction and transfer throw CompanyMismatchError  *)
(* (expected = the transfer's tenant, actual = the source's tenant when    *)
(* the source mismatches, else the destination's); no balance changes.     *)
(***************************************************************************)
C6_Applies ==
    /\ tenantAware /\ IsTransferCall /\ BothExist
    /\ SourceMismatch \/ DestinationMismatch

C6_Actual ==
    IF SourceMismatch THEN heap[Source].companyId ELSE heap[Destination].companyId

C6_AsClaimed ==
    C6_Applies =>
        /\ ThrewCompanyMismatch(call.args.companyId, C6_Actual)
        /\ NothingChanged

(***************************************************************************)
(* C6 amended: the same for processTransaction and for transfer with an    *)
(* amount > 0; transfer with an amount <= 0 throws the generic amount      *)
(* error instead; in every case no balance changes.                        *)
(***************************************************************************)
C6_TenantMismatch ==
    C6_Applies =>
        /\ NothingChanged
        /\ call.args.amount > 0 => ThrewCompanyMismatch(call.args.companyId, C6_Actual)
        /\ call.args.amount <= 0 => (call.op = "transfer" /\ ThrewAmountError)

\* both accounts mismatch, with different tenants: the error carries the source's
C6_Witness ==
    /\ C6_Applies
    /\ SourceMismatch /\ DestinationMismatch
    /\ heap[Source].companyId # heap[Destination].companyId
    /\ ThrewCompanyMismatch(call.args.companyId, heap[Source].companyId)

(***************************************************************************)
(* C7: processTransaction and transfer check existence, then tenant, then  *)
(* funds.  The error of a later check is thrown only when every earlier    *)
(* check passes: a missing account excludes CompanyMismatchError and       *)
(* InsufficientFundsError, a tenant mismatch excludes                      *)
(* InsufficientFundsError; with an amount > 0 the error thrown is that of  *)
(* the earliest failing check; and no call that throws changes a balance.  *)
(***************************************************************************)
C7_ChecksInOrder ==
    IsTransferCall =>
        /\ Threw("AccountNotFoundError") => ~BothExist
        /\ Threw("CompanyMismatchError") =>
              (BothExist /\ (SourceMismatch \/ DestinationMismatch))
        /\ Threw("InsufficientFundsError") =>
              (BothExist /\ TenantsMatch
               /\ call.before[Source].balance < call.args.amount)
        /\ (~BothExist /\ call.args.amount > 0) => Threw("AccountNotFoundError")
        /\ (BothExist /\ ~TenantsMatch /\ call.args.amount > 0) =>
              Threw("CompanyMismatchError")
        /\ call.outcome.kind = "throw" => NothingChanged

\* a call failing all three checks at once: the destination is absent, the source
\* is of another tenant and cannot pay; the missing account is what is reported
C7_Witness ==
    /\ tenantAware /\ IsTransferCall
    /\ Has(call.args.fromAccount) /\ ~Has(call.args.toAccount)
    /\ SourceMismatch
    /\ heap[Source].balance < call.args.amount
    /\ Threw("AccountNotFoundError")

\* a call failing the tenant and the funds checks: the mismatch is what is reported
C7_WitnessTenantBeforeFunds ==
    /\ tenantAware /\ IsTransferCall /\ BothExist
    /\ ~TenantsMatch
    /\ heap[Source].balance < call.args.amount
    /\ Threw("CompanyMismatchError")

(***************************************************************************)
(* C8: transfer with an amount <= 0 throws the generic error 'Amount must  *)
(* be greater than 0' before any lookup: this error and no other, also     *)
(* when the source or the destination is absent or of another tenant, and  *)
(* no balance changes.                                                     *)
(***************************************************************************)
C8_AmountCheckedFirst ==
    (call.op = "transfer" /\ call.args.amount <= 0) =>
        /\ ThrewAmountError
        /\ NothingChanged

\* amount 0 and an absent source
C8_Witness ==
    /\ call.op = "transfer" /\ call.args.amount = 0
    /\ ~Has(call.args.fromAccount)
    /\ Len(accounts) > 0
    /\ ThrewAmountError

(***************************************************************************)
(* C9 as claimed: in every ledger state, for every fromNumber, toNumber    *)
(* and amount > 0 (and tenant), transfer has the same outcome and leaves   *)
(* the same balances as constructing a TransactionEntity from the same     *)
(* arguments and calling processTransaction on it, malformed account       *)
(* numbers included.                                                       *)
(***************************************************************************)
C9_Direct(f, t, a, c) ==
    IF tenantAware
    THEN transferCo(accounts, heap, f, t, a, c)
    ELSE transfer(accounts, heap, f, t, a)

C9_ViaEntity(f, t, a, c) ==
    IF tenantAware
    THEN newThenProcessCo(accounts, heap,
                          [fromAccount |-> f, toAccount |-> t, amount |-> a, companyId |-> c])
    ELSE newThenProcess(accounts, heap, [fromAccount |-> f, toAccount |-> t, amount |-> a])

C9_AsClaimed ==
    (call.op = "transfer" /\ call.args.amount > 0) =>
        LET viaEntity == IF tenantAware
                         THEN newThenProcessCo(accounts, call.before, call.args)
                         ELSE newThenProcess(accounts, call.before, call.args)
        IN  viaEntity.heap = heap /\ viaEntity.outcome = call.outcome

(***************************************************************************)
(* C9 amended: the two agree, in outcome and in balances, whenever         *)
(* fromNumber and toNumber are both 16-digit numbers.  When one of them is *)
(* not, transfer throws AccountNotFoundError while the TransactionEntity   *)
(* constructor throws its validation error; neither changes a balance.     *)
(***************************************************************************)
C9_Tenants == IF tenantAware THEN CompanyIds ELSE {"none"}

C9_TransferAgreesWithProcessTransaction ==
    \A f \in AnyStrings, t \in AnyStrings, a \in 1..MaxAmount, c \in C9_Tenants :
        IF IsAccountNumber(f) /\ IsAccountNumber(t)
        THEN C9_Direct(f, t, a, c) = C9_ViaEntity(f, t, a, c)
        ELSE /\ C9_Direct(f, t, a, c).outcome.name = "AccountNotFoundError"
             /\ C9_ViaEntity(f, t, a, c).outcome.name = "ZodError"
             /\ C9_Direct(f, t, a, c).heap = heap
             /\ C9_ViaEntity(f, t, a, c).heap = heap

\* transfer has moved the source's whole balance, as processTransaction would have
C9_Witness ==
    /\ call.op = "transfer" /\ Returned
    /\ Source # Destination
    /\ call.before[Source].balance = call.args.amount
    /\ LET viaEntity == IF tenantAware
                        THEN newThenProcessCo(accounts, call.before, call.args)
                        ELSE newThenProcess(accounts, call.before, call.args)
       IN  viaEntity.heap = heap /\ viaEntity.outcome = call.outcome

(***************************************************************************)
(* C10: getAccountBalance throws AccountNotFoundError when the number is   *)
(* absent (existence is checked before the tenant); in the tenant-aware    *)
(* variant, for an existing account of another tenant, it throws           *)
(* CompanyMismatchError(supplied tenant, account's tenant); otherwise it   *)
(* returns the account's current balance, which is its initial balance     *)
(* plus the credits minus the debits of the transfers that succeeded.      *)
(***************************************************************************)
C10_Account == MapGet(accounts, call.args.accountNumber)

C10_GetAccountBalance ==
    call.op = "getAccountBalance" =>
        IF ~Has(call.args.accountNumber)
        THEN ThrewAccountNotFound(call.args.accountNumber)
        ELSE IF tenantAware /\ heap[C10_Account].companyId # call.args.companyId
        THEN ThrewCompanyMismatch(call.args.companyId, heap[C10_Account].companyId)
        ELSE /\ Returned
             /\ call.outcome.value = heap[C10_Account].balance
             /\ call.outcome.value = initial[C10_Account] + net[C10_Account]

\* the balance returned is that of an account transfers have changed
C10_Witness ==
    /\ call.op = "getAccountBalance" /\ Returned
    /\ net[C10_Account] # 0
    /\ call.outcome.value = initial[C10_Account] + net[C10_Account]

\* the account is of another tenant than the one supplied
C10_WitnessMismatch ==
    /\ call.op = "getAccountBalance" /\ tenantAware
    /\ Has(call.args.accountNumber)
    /\ ThrewCompanyMismatch(call.args.companyId, heap[C10_Account].companyId)

(***************************************************************************)
(* C11: each processTransaction or transfer call is atomic towards its     *)
(* caller: when it returns both the debit of the source and the credit of  *)
(* the destination have been applied, when it throws neither has; no call  *)
(* ends with the source debited and the destination not credited.          *)
(***************************************************************************)
\* the heap with the amount taken from the source, then given to the destination
C11_BothApplied ==
    LET debited == [call.before EXCEPT ![Source].balance = @ - call.args.amount]
    IN  [debited EXCEPT ![Destination].balance = @ + call.args.amount]

C11_Atomic ==
    IsTransferCall =>
        /\ Returned => (BothExist /\ heap = C11_BothApplied)
        /\ ~Returned => NothingChanged
        /\ (BothExist /\ heap[Source].balance < call.before[Source].balance) =>
              heap[Destination].balance > call.before[Destination].balance

\* a call between two different accounts has returned: debit and credit are both visible
C11_Witness ==
    /\ IsTransferCall /\ Returned
    /\ Source # Destination
    /\ heap[Source].balance = call.before[Source].balance - call.args.amount
    /\ heap[Destination].balance = call.before[Destination].balance + call.args.amount

\* a call has thrown although its source could have paid
C11_WitnessThrow ==
    /\ IsTransferCall /\ ~Returned
    /\ Has(call.args.fromAccount)
    /\ call.args.amount > 0
    /\ call.before[Source].balance >= call.args.amount

(***************************************************************************)
(* C12: over any sequence of transfers applied one by one, a failing       *)
(* transfer changes nothing and undoes nothing: the balances are those     *)
(* obtained from the initial balances by the transfers that succeeded      *)
(* alone, in their order.                                                  *)
(***************************************************************************)
C12_OnlySuccessesCount ==
    /\ \A i \in 1..Len(heap) : heap[i].balance = initial[i] + net[i]
    /\ (IsTransferCall /\ ~Returned) => NothingChanged

\* a transfer has failed after an earlier one had succeeded, whose effect is still there
C12_Witness ==
    /\ IsTransferCall /\ ~Returned
    /\ call.args.amount > 0
    /\ \E i \in 1..Len(heap) : net[i] > 0 /\ heap[i].balance = initial[i] + net[i]

(***************************************************************************)
(* C14: transfer application is order-dependent: there are a ledger and    *)
(* two transfers A and B such that A then B both succeed, while B then A   *)
(* makes B fail with InsufficientFundsError, and the final balances of the *)
(* two orders differ.                                                      *)
(***************************************************************************)
C14_Process(accts, objects, transaction) ==
    IF tenantAware
    THEN processTransactionCo(accts, objects, transaction)
    ELSE processTransaction(accts, objects, transaction)

\* B fails on the ledger with InsufficientFundsError, A succeeds on it, and B
\* succeeds after A; the balances after A then B are not those after B then A
C14_OrderMatters(objects, A, B) ==
    LET accts == BankingServiceConstructor(objects, Len(objects))
    IN  /\ C14_Process(accts, objects, B).outcome.kind = "throw"
        /\ C14_Process(accts, objects, B).outcome.name = "InsufficientFundsError"
        /\ C14_Process(accts, objects, A).outcome.kind = "return"
        /\ LET afterA == C14_Process(accts, objects, A).heap
               afterB == C14_Process(accts, objects, B).heap
           IN  /\ C14_Process(accts, afterA, B).outcome.kind = "return"
               /\ C14_Process(accts, afterB, A).outcome.kind = "return"
               /\ \E i \in 1..Len(objects) :
                     C14_Process(accts, afterA, B).heap[i].balance
                        # C14_Process(accts, afterB, A).heap[i].balance

\* a ledger the service can be constructed on: one account empty, the other funded
C14_Ledger ==
    IF tenantAware
    THEN << [accountNumber |-> ACC_A, balance |-> 0, companyId |-> "alpha-sales"],
            [accountNumber |-> ACC_B, balance |-> MaxBalance, companyId |-> "alpha-sales"] >>
    ELSE << [accountNumber |-> ACC_A, balance |-> 0],
            [accountNumber |-> ACC_B, balance |-> MaxBalance] >>

\* the transfers of the whole funded balance between accounts of that ledger
C14_Transfers ==
    IF tenantAware
    THEN [fromAccount : AccountNumbers, toAccount : AccountNumbers,
          amount : {MaxBalance}, companyId : {"alpha-sales"}]
    ELSE [fromAccount : AccountNumbers, toAccount : AccountNumbers, amount : {MaxBalance}]

\* in the variant of the service at hand, on that ledger, such transfers exist
C14_OrderDependent ==
    /\ C14_Ledger \in InitialCollections(tenantAware)
    /\ \E A \in C14_Transfers, B \in C14_Transfers :
          /\ A \in TransactionEntities(tenantAware)
          /\ B \in TransactionEntities(tenantAware)
          /\ C14_OrderMatters(C14_Ledger, A, B)

\* the heap the service was constructed on
InitialHeap == [i \in 1..Len(heap) |-> [heap[i] EXCEPT !.balance = initial[i]]]

\* B has just succeeded after an A that funded its source; on the initial ledger
\* B fails with InsufficientFundsError
C14_Witness ==
    /\ ~tenantAware
    /\ call.op = "processTransaction" /\ Returned
    /\ initial[Source] < call.args.amount
    /\ processTransaction(accounts, InitialHeap, call.args).outcome.name
          = "InsufficientFundsError"
    /\ \E i \in 1..Len(heap) : heap[i].balance # call.before[i].balance

(***************************************************************************)
(* C15 as claimed: for every processTransaction that succeeds, processing  *)
(* the same transfer a second time never leaves the ledger in the state    *)
(* reached after the first application.                                    *)
(***************************************************************************)
C15_Again ==
    IF tenantAware
    THEN processTransactionCo(accounts, heap, call.args)
    ELSE processTransaction(accounts, heap, call.args)

C15_AsClaimed ==
    (call.op = "processTransaction" /\ Returned) => C15_Again.heap # heap

(***************************************************************************)
(* C15 amended: for every processTransaction between two different         *)
(* accounts that succeeds, the second processing of the same transfer      *)
(* either succeeds and lowers the source balance again by amount (and      *)
(* raises the destination's), or throws InsufficientFundsError and leaves  *)
(* the balances as they were after the first; for a transfer from an       *)
(* account to itself the second processing succeeds and changes nothing.   *)
(***************************************************************************)
C15_NotIdempotent ==
    (call.op = "processTransaction" /\ Returned) =>
        IF Source # Destination
        THEN \/ /\ C15_Again.outcome.kind = "return"
                /\ C15_Again.heap[Source].balance
                      = heap[Source].balance - call.args.amount
                /\ C15_Again.heap[Destination].balance
                      = heap[Destination].balance + call.args.amount
             \/ /\ C15_Again.outcome.kind = "throw"
                /\ C15_Again.outcome.name = "InsufficientFundsError"
                /\ heap[Source].balance < call.args.amount
                /\ C15_Again.heap = heap
        ELSE /\ C15_Again.outcome.kind = "return"
             /\ C15_Again.heap = heap

\* after the first application the source can pay once more
C15_Witness ==
    /\ call.op = "processTransaction" /\ Returned
    /\ Source # Destination
    /\ heap[Source].balance >= call.args.amount
    /\ C15_Again.heap[Source].balance = heap[Source].balance - call.args.amount

(***************************************************************************)
(* The entities on their own: AccountEntity (company-aware Account.ts) and *)
(* TransactionEntity (Transaction.ts), constructed from arbitrary data and *)
(* called with arbitrary amounts.  The heap holds the one AccountEntity    *)
(* under consideration, once it has been constructed.                      *)
(***************************************************************************)
MaxHeld == 3        \* the balances followed range over -MaxHeld..MaxHeld

\* the data handed to new AccountEntity: any string, any balance, companyId or none
AccountInputs ==
    [accountNumber : AnyStrings, balance : Balances, companyId : AccountCompanyIds]
    \cup [accountNumber : AnyStrings, balance : Balances]

TransactionInputs == [fromAccount : AnyStrings, toAccount : AnyStrings, amount : Amounts]

\* new AccountEntity(data): this.account = AccountSchema.parse(data)
newAccountEntity(objects, data) ==
    IF AccountIssues(data) # <<>>
    THEN [heap |-> objects, outcome |-> ZodError(AccountIssues(data))]
    ELSE [heap |-> << [accountNumber |-> data.accountNumber,
                       balance |-> data.balance,
                       companyId |-> data.companyId] >>,
          outcome |-> Return(1)]

getAccountNumber(account) == account.accountNumber
getBalance(account) == account.balance
getCompanyId(account) == account.companyId

\* new TransactionEntity(data): this.transaction = TransactionSchema.parse(data)
newTransactionEntity(objects, data) ==
    IF TransactionIssues(data) # <<>>
    THEN [heap |-> objects, outcome |-> ZodError(TransactionIssues(data))]
    ELSE [heap |-> objects,
          outcome |-> Return([fromAccount |-> data.fromAccount,
                              toAccount |-> data.toAccount,
                              amount |-> data.amount])]

InitEntities ==
    /\ tenantAware = TRUE
    /\ heap = <<>>
    /\ accounts = <<>>
    /\ call = [op |-> "none", args |-> <<>>, outcome |-> Void, before |-> <<>>]
    /\ initial = <<>>
    /\ net = <<>>
    /\ run = NoRun

Held(balance) == balance \in (0 - MaxHeld)..MaxHeld

NewAccountEntity ==
    \E data \in AccountInputs :
        Called("new AccountEntity", data, newAccountEntity(heap, data))

NewTransactionEntity ==
    \E data \in TransactionInputs :
        Called("new TransactionEntity", data, newTransactionEntity(heap, data))

CanWithdraw ==
    /\ Len(heap) = 1
    /\ \E amount \in Amounts :
          Called("canWithdraw", [amount |-> amount],
                 [heap |-> heap, outcome |-> Return(canWithdraw(heap[1], amount))])

Withdraw ==
    /\ Len(heap) = 1
    /\ \E amount \in Amounts :
          LET w == withdraw(heap[1], amount)
          IN  /\ Held(w.account.balance)
              /\ Called("withdraw", [amount |-> amount],
                        [heap |-> <<w.account>>, outcome |-> w.outcome])

Deposit ==
    /\ Len(heap) = 1
    /\ \E amount \in Amounts :
          /\ Held(deposit(heap[1], amount).balance)
          /\ Called("deposit", [amount |-> amount],
                    [heap |-> <<deposit(heap[1], amount)>>, outcome |-> Void])

NextEntities ==
    \/ NewAccountEntity
    \/ NewTransactionEntity
    \/ CanWithdraw
    \/ Withdraw
    \/ Deposit

SpecEntities == InitEntities /\ [][NextEntities]_vars

C16_CanWithdraw ==
    call.op = "canWithdraw" =>
        /\ call.outcome = Return(call.before[1].balance >= call.args.amount)
        /\ NothingChanged

(***************************************************************************)
(* C16 as claimed: withdraw(amount) succeeds exactly when balance >=       *)
(* amount and then lowers the balance by exactly amount; when balance <    *)
(* amount it fails with the InsufficientFunds error kind, the one that     *)
(* names the account, the amount required and the balance available, and   *)
(* leaves the balance unchanged; canWithdraw(amount) is true exactly when  *)
(* balance >= amount and changes nothing.                                  *)
(***************************************************************************)
C16_AsClaimed ==
    /\ call.op = "withdraw" =>
           IF call.before[1].balance >= call.args.amount
           THEN /\ Returned
                /\ getBalance(heap[1]) = getBalance(call.before[1]) - call.args.amount
           ELSE /\ ThrewInsufficientFunds(getAccountNumber(call.before[1]),
                                          call.args.amount, getBalance(call.before[1]))
                /\ NothingChanged
    /\ C16_CanWithdraw

(***************************************************************************)
(* C16, amended: withdraw(amount) succeeds exactly when balance >= amount  *)
(* (a withdrawal of the exact balance leaves 0) and then lowers the        *)
(* balance by exactly amount; when balance < amount it fails and leaves    *)
(* the balance unchanged, and what it throws is a plain Error whose        *)
(* message is "Insufficient funds", not the InsufficientFunds error kind   *)
(* of the service; canWithdraw(amount) is true exactly when balance >=     *)
(* amount and changes nothing.                                             *)
(***************************************************************************)
C16_Succeeds ==
    call.op = "withdraw" =>
        IF call.before[1].balance >= call.args.amount
        THEN /\ Returned
             /\ getBalance(heap[1]) = getBalance(call.before[1]) - call.args.amount
        ELSE /\ Threw("Error")
             /\ call.outcome.message = <<"Insufficient funds">>
             /\ NothingChanged

C16_Withdraw == C16_Succeeds /\ C16_CanWithdraw

\* the exact balance has been withdrawn, leaving 0
C16_Witness ==
    /\ call.op = "withdraw" /\ Returned
    /\ call.args.amount > 0
    /\ call.before[1].balance = call.args.amount
    /\ heap[1].balance = 0

\* a withdrawal of more than the balance has failed
C16_WitnessFails ==
    /\ call.op = "withdraw" /\ ~Returned
    /\ call.before[1].balance >= 0
    /\ call.before[1].balance < call.args.amount
    /\ Threw("Error")
    /\ call.outcome.message = <<"Insufficient funds">>
    /\ NothingChanged

(***************************************************************************)
(* C17 as claimed: withdraw and deposit guard against a non-positive       *)
(* amount: called with amount <= 0 they do not move the balance in the     *)
(* wrong direction (withdraw does not raise it, deposit does not lower     *)
(* it), so no sequence of withdraw and deposit calls with arbitrary        *)
(* amounts drives a balance below 0.                                       *)
(***************************************************************************)
C17_AsClaimed ==
    /\ (call.op = "withdraw" /\ call.args.amount <= 0) =>
          heap[1].balance <= call.before[1].balance
    /\ (call.op = "deposit" /\ call.args.amount <= 0) =>
          heap[1].balance >= call.before[1].balance
    /\ \A i \in 1..Len(heap) : heap[i].balance >= 0

\* what the code does instead: both calls apply the arithmetic to any amount
C17_NoGuard ==
    /\ (call.op = "deposit") =>
          heap[1].balance = call.before[1].balance + call.args.amount
    /\ (call.op = "withdraw" /\ call.args.amount <= call.before[1].balance) =>
          heap[1].balance = call.before[1].balance - call.args.amount

\* a deposit of a negative amount has driven a balance below 0
C17_Witness ==
    /\ call.op = "deposit" /\ Returned
    /\ call.args.amount < 0
    /\ call.before[1].balance >= 0
    /\ heap[1].balance < 0

(***************************************************************************)
(* C18: new AccountEntity(data) fails with a validation error (ZodError),  *)
(* and no account is created, whenever the account number is not exactly   *)
(* 16 digit characters, or the balance is < 0, or the tenant is missing;   *)
(* with a 16-digit number, a balance >= 0 (0 included) and a tenant it     *)
(* succeeds and the account reports exactly those values.                  *)
(***************************************************************************)
C18_AccountValidation ==
    call.op = "new AccountEntity" =>
        IF \/ ~IsAccountNumber(call.args.accountNumber)
           \/ call.args.balance < 0
           \/ "companyId" \notin DOMAIN call.args
        THEN /\ Threw("ZodError")
             /\ call.outcome.message[2] # <<>>
             /\ NothingChanged
        ELSE /\ call.outcome = Return(1)
             /\ Len(heap) = 1
             /\ getAccountNumber(heap[1]) = call.args.accountNumber
             /\ getBalance(heap[1]) = call.args.balance
             /\ getCompanyId(heap[1]) = call.args.companyId

\* an account with balance 0 has been constructed
C18_Witness ==
    /\ call.op = "new AccountEntity" /\ Returned
    /\ call.args.balance = 0
    /\ getBalance(heap[1]) = 0

\* data that lacks only the tenant has been refused
C18_WitnessNoTenant ==
    /\ call.op = "new AccountEntity" /\ Threw("ZodError")
    /\ "companyId" \notin DOMAIN call.args
    /\ call.outcome.message[2] = <<"companyId">>

(***************************************************************************)
(* C19: new TransactionEntity(data) fails with a validation error          *)
(* (ZodError) whenever amount <= 0 or the source or the destination is not *)
(* exactly 16 digit characters, so every entity it yields has amount > 0;  *)
(* data whose source equals its destination is accepted.                   *)
(***************************************************************************)
C19_TransactionValidation ==
    call.op = "new TransactionEntity" =>
        /\ NothingChanged
        /\ IF \/ call.args.amount <= 0
              \/ ~IsAccountNumber(call.args.fromAccount)
              \/ ~IsAccountNumber(call.args.toAccount)
           THEN /\ Threw("ZodError")
                /\ call.outcome.message[2] # <<>>
           ELSE /\ Returned
                /\ call.outcome.value = call.args
                /\ call.outcome.value.amount > 0

\* data with the source as destination has been accepted
C19_Witness ==
    /\ call.op = "new TransactionEntity" /\ Returned
    /\ call.outcome.value.fromAccount = call.outcome.value.toAccount

\* data with amount 0 has been refused for the amount alone
C19_WitnessZero ==
    /\ call.op = "new TransactionEntity" /\ Threw("ZodError")
    /\ call.args.amount = 0
    /\ call.outcome.message[2] = <<"amount">>

(***************************************************************************)
(* The company-aware service constructed from a collection in which an     *)
(* account number may occur more than once, and then queried.              *)
(***************************************************************************)
MaxAccounts == 3    \* the initial collection holds up to MaxAccounts accounts

AccountCollections == UNION {[1..n -> ValidAccounts(TRUE)] : n \in 0..MaxAccounts}

InitDuplicates ==
    /\ tenantAware = TRUE
    /\ \E initialAccounts \in AccountCollections :
          /\ heap = initialAccounts
          /\ accounts = BankingServiceConstructor(initialAccounts, Len(initialAccounts))
    /\ call = [op |-> "constructor", args |-> <<>>, outcome |-> Void, before |-> heap]
    /\ initial = [i \in 1..Len(heap) |-> heap[i].balance]
    /\ net = [i \in 1..Len(heap) |-> 0]
    /\ run = NoRun

NextDuplicates ==
    \/ GetAccountBalanceCo
    \/ GetAllAccounts

SpecDuplicates == InitDuplicates /\ [][NextDuplicates]_vars

(***************************************************************************)
(* C20: when the initial collection holds several accounts with the same   *)
(* account number, construction does not fail and the ledger holds one     *)
(* account for that number, whose balance and tenant are those of the last *)
(* occurrence in the collection.                                           *)
(***************************************************************************)
\* the places of the collection where the number occurs
C20_Occurrences(n) == {i \in 1..Len(heap) : heap[i].accountNumber = n}

C20_Last(n) == CHOOSE i \in C20_Occurrences(n) : \A j \in C20_Occurrences(n) : j <= i

C20_LastWins ==
    /\ call.op = "constructor" => call.outcome = Void
    /\ Len(accounts) = Cardinality({heap[i].accountNumber : i \in 1..Len(heap)})
    /\ \A n \in AccountNumbers :
          C20_Occurrences(n) # {} =>
              /\ Cardinality({k \in 1..Len(accounts) : accounts[k].key = n}) = 1
              /\ heap[MapGet(accounts, n)].balance = heap[C20_Last(n)].balance
              /\ heap[MapGet(accounts, n)].companyId = heap[C20_Last(n)].companyId
              /\ getAccountBalanceCo(accounts, heap, n, heap[C20_Last(n)].companyId).outcome
                    = Return(heap[C20_Last(n)].balance)
    /\ (call.op = "getAllAccounts") =>
          \A n \in AccountNumbers :
              Cardinality({k \in 1..Len(call.outcome.value) :
                              heap[call.outcome.value[k]].accountNumber = n}) <= 1

\* a number occurs twice with different balances and tenants, and the ledger has
\* answered with the balance of the second
C20_Witness ==
    /\ Len(heap) >= 2
    /\ heap[1].accountNumber = heap[Len(heap)].accountNumber
    /\ heap[1].balance # heap[Len(heap)].balance
    /\ heap[1].companyId # heap[Len(heap)].companyId
    /\ call.op = "getAccountBalance"
    /\ call.args.accountNumber = heap[1].accountNumber
    /\ call.args.companyId = heap[Len(heap)].companyId
    /\ call.outcome = Return(heap[Len(heap)].balance)

(***************************************************************************)
(* The plain service constructed from a collection in which an account     *)
(* number may occur more than once, then used for transfers and queries.   *)
(***************************************************************************)
PlainCollections == UNION {[1..n -> ValidAccounts(FALSE)] : n \in 0..MaxAccounts}

InitLedger ==
    /\ tenantAware = FALSE
    /\ \E initialAccounts \in PlainCollections :
          /\ heap = initialAccounts
          /\ accounts = BankingServiceConstructor(initialAccounts, Len(initialAccounts))
    /\ call = [op |-> "constructor", args |-> <<>>, outcome |-> Void, before |-> heap]
    /\ initial = [i \in 1..Len(heap) |-> heap[i].balance]
    /\ net = [i \in 1..Len(heap) |-> 0]
    /\ run = NoRun

NextLedger ==
    \/ ProcessTransaction
    \/ GetAccountBalance
    \/ GetAllAccounts

SpecLedger == InitLedger /\ [][NextLedger]_vars

(***************************************************************************)
(* C21: getAllAccounts returns each account of the ledger exactly once, as *)
(* many entries as there are distinct account numbers in the initial       *)
(* collection, in an order that is determined by the initial collection    *)
(* alone: the same on every call, whatever transfers have been processed.  *)
(***************************************************************************)
\* the account numbers of the initial collection
C21_Numbers == {heap[i].accountNumber : i \in 1..Len(heap)}

\* the Map built from the collection as it was handed to the constructor
C21_InitialOrder == BankingServiceConstructor(InitialHeap, Len(heap))

C21_StableOrder ==
    call.op = "getAllAccounts" =>
        /\ Returned
        /\ Len(call.outcome.value) = Cardinality(C21_Numbers)
        /\ \A n \in C21_Numbers :
              Cardinality({k \in 1..Len(call.outcome.value) :
                              heap[call.outcome.value[k]].accountNumber = n}) = 1
        /\ call.outcome.value = [k \in 1..Len(C21_InitialOrder) |-> C21_InitialOrder[k].value]
        /\ getAllAccounts(accounts, heap).outcome = call.outcome

\* two accounts, one of them given twice in the collection, are returned after a
\* transfer has made the first of them the richer one
C21_Witness ==
    /\ call.op = "getAllAccounts"
    /\ Len(call.outcome.value) = 2
    /\ Len(heap) > 2
    /\ InitialHeap[call.outcome.value[1]].balance < InitialHeap[call.outcome.value[2]].balance
    /\ heap[call.outcome.value[1]].balance > heap[call.outcome.value[2]].balance

(***************************************************************************)
(* C26: the sum of the balances of all accounts of the ledger is the same  *)
(* in every reachable state: no sequence of processTransaction and         *)
(* transfer calls, successful or failing, creates or destroys money.       *)
(***************************************************************************)
RECURSIVE C26_Total(_, _, _)
\* the sum of the balances of the first n entries of the Map
C26_Total(accts, objects, n) ==
    IF n = 0 THEN 0
    ELSE C26_Total(accts, objects, n - 1) + objects[accts[n].value].balance

C26_MoneyConserved ==
    /\ C26_Total(accounts, heap, Len(accounts))
          = C26_Total(accounts, InitialHeap, Len(accounts))
    /\ IsTransferCall =>
          C26_Total(accounts, heap, Len(accounts))
             = C26_Total(accounts, call.before, Len(accounts))

\* money has moved between two accounts
C26_Witness ==
    /\ IsTransferCall /\ Returned
    /\ Source # Destination
    /\ heap[Source].balance < initial[Source]
    /\ heap[Destination].balance > initial[Destination]

(***************************************************************************)
(* C27: a processTransaction whose source is its destination, an account   *)
(* of the ledger (of the transfer's tenant, in the company-aware variant), *)
(* succeeds when the balance is >= amount and leaves that balance and      *)
(* every other balance unchanged, and fails with InsufficientFundsError    *)
(* when the balance is < amount; either way the account is left with the   *)
(* balance it started with.                                                *)
(***************************************************************************)
C27_IsSelfTransfer ==
    /\ call.op = "processTransaction"
    /\ call.args.fromAccount = call.args.toAccount
    /\ Has(call.args.fromAccount)

C27_SelfTransfer ==
    C27_IsSelfTransfer =>
        /\ NothingChanged
        /\ heap[Source].balance = call.before[Source].balance
        /\ TenantsMatch =>
              IF call.before[Source].balance >= call.args.amount
              THEN Returned
              ELSE ThrewInsufficientFunds(call.args.fromAccount, call.args.amount,
                                          call.before[Source].balance)
        /\ ~TenantsMatch => Threw("CompanyMismatchError")

\* an account has paid itself its whole balance
C27_Witness ==
    /\ C27_IsSelfTransfer /\ Returned
    /\ ~tenantAware
    /\ call.args.amount = call.before[Source].balance
    /\ heap[Source].balance = call.args.amount

\* an account has failed to pay itself more than it holds
C27_WitnessFails ==
    /\ C27_IsSelfTransfer /\ Threw("InsufficientFundsError")
    /\ call.before[Source].balance > 0

(***************************************************************************)
(* C28: the set of account numbers of the ledger, and each account's       *)
(* number and tenant, are fixed at construction: no processTransaction,    *)
(* transfer, getAccountBalance or getAllAccounts call adds an account,     *)
(* removes one, or changes anything but the balances of the source and the *)
(* destination of a successful transfer.                                   *)
(***************************************************************************)
C28_Frame ==
    /\ accounts = BankingServiceConstructor(InitialHeap, Len(InitialHeap))
    /\ \A k \in 1..Len(accounts) : heap[accounts[k].value].accountNumber = accounts[k].key
    /\ Len(heap) = Len(call.before)
    /\ \A i \in 1..Len(heap) :
          /\ heap[i].accountNumber = call.before[i].accountNumber
          /\ tenantAware => heap[i].companyId = call.before[i].companyId
          /\ heap[i].balance # call.before[i].balance =>
                /\ IsTransferCall /\ Returned
                /\ i \in {Source, Destination}

\* a transfer call of the company-aware service has changed two balances
C28_Witness ==
    /\ tenantAware
    /\ call.op = "transfer" /\ Returned
    /\ heap[Source].balance # call.before[Source].balance
    /\ heap[Destination].balance # call.before[Destination].balance
    /\ heap[Source].companyId = call.args.companyId

(***************************************************************************)
(* C29: getAccountBalance and getAllAccounts are pure queries: whether     *)
(* they succeed or fail, every balance of the ledger is the same after the *)
(* call as before, and a second getAccountBalance call for the same        *)
(* account, with no transfer in between, returns the same value.           *)
(***************************************************************************)
C29_Again ==
    IF tenantAware
    THEN getAccountBalanceCo(accounts, heap, call.args.accountNumber, call.args.companyId)
    ELSE getAccountBalance(accounts, heap, call.args.accountNumber)

C29_PureQueries ==
    /\ call.op \in {"getAccountBalance", "getAllAccounts"} => NothingChanged
    /\ call.op = "getAccountBalance" =>
          /\ C29_Again.outcome = call.outcome
          /\ C29_Again.heap = call.before
          /\ Returned =>
                call.outcome.value = heap[MapGet(accounts, call.args.accountNumber)].balance

\* a balance that a transfer has raised has been read
C29_Witness ==
    /\ call.op = "getAccountBalance" /\ Returned
    /\ call.outcome.value > initial[MapGet(accounts, call.args.accountNumber)]

\* a query has failed
C29_WitnessFails ==
    /\ call.op = "getAccountBalance" /\ ~Returned
    /\ Len(heap) > 0

(***************************************************************************)
(* FileReaderService (company-aware).  A file is what fs.readFileSync does *)
(* for its path: it throws, or returns a content, given here line by line, *)
(* each line as its comma-separated fields.  Fields are strings, written   *)
(* as sequences of characters.                                             *)
(***************************************************************************)
MaxLines == 2       \* a file holds up to MaxLines lines

F_ONE == <<"1">>
F_ZERO == <<"0">>
F_WORD == <<"a", "b", "c">>
F_ONE_THEN_LETTER == <<"1", "x">>
F_HALF == <<"0", ".", "5">>
F_INFINITY == <<"I", "n", "f", "i", "n", "i", "t", "y">>
F_NEGATIVE_INFINITY == <<"-", "I", "n", "f", "i", "n", "i", "t", "y">>
\* 1 after a vertical tab (U+000B)
F_TAB_THEN_ONE == <<"", "1">>
\* less than half of the smallest Number
F_TINY == <<"1", "e", "-", "4", "0", "0">>
FILE_PATH == "test.csv"
COMPANY_ID == "alpha-sales"

InvalidCsvFormatError(filePath, reason) ==
    Throw("InvalidCsvFormatError", <<"Invalid CSV format in ", filePath, ": ", reason>>)

FileSystemError(filePath, operation, reason) ==
    Throw("FileSystemError",
          <<"File system error in ", filePath, " during ", operation, ": ", reason>>)

\* error instanceof Error
InstanceOfError(error) == "message" \in DOMAIN error

\* the error csv-parse throws for a record whose length is not the first record's
CsvError(expected, got, line) ==
    Throw("CsvError", <<"Invalid Record Length: expect ", expected, ", got ", got,
                        " on line ", line>>)

\* a thrown value that is not an Error: the object { name: 'CustomError' }
NotAnError == [kind |-> "throw", name |-> "CustomError"]

DigitValue(c) ==
    CASE c = "0" -> 0 [] c = "1" -> 1 [] c = "2" -> 2 [] c = "3" -> 3 [] c = "4" -> 4
      [] c = "5" -> 5 [] c = "6" -> 6 [] c = "7" -> 7 [] c = "8" -> 8 [] c = "9" -> 9

\* the least of a set of integers that is not empty
Least(S) == CHOOSE i \in S : \A j \in S : i <= j

\* how many digit characters s has from position i on, before any other character
DigitsFrom(s, i) ==
    LET others == {j \in i..Len(s) : s[j] \notin Digits}
    IN  IF others # {} THEN Least(others) - i
        ELSE IF i > Len(s) THEN 0 ELSE Len(s) - i + 1

RECURSIVE DecimalValue(_, _, _)
\* the number written by the n digit characters of s that end at position i
DecimalValue(s, i, n) ==
    IF n = 0 THEN 0 ELSE 10 * DecimalValue(s, i - 1, n - 1) + DigitValue(s[i])

(***************************************************************************)
(* The Number a field denotes, written in decimal: sign * d.ddd * 10^      *)
(* exponent, digits being the significant digits d, d, d, ... (no zero     *)
(* first or last; none for 0 and -0) and exponent the power of ten of the  *)
(* first of them, or sign * Infinity.  The digits are all the digits of    *)
(* the field: the Number is the binary64 value nearest to what they write, *)
(* so two fields denote the same Number when they are written the same     *)
(* here, and fields of at most 15 significant digits and of magnitude      *)
(* 1e-307 or more only then.                                               *)
(***************************************************************************)
Written(sign, digits, exponent) ==
    [sign |-> sign, infinite |-> FALSE, digits |-> digits, exponent |-> exponent]

Infinity(sign) == [sign |-> sign, infinite |-> TRUE, digits |-> <<>>, exponent |-> 0]

Zero(sign) == Written(sign, <<>>, 0)

\* -1, 0 or 1 as n < 0, n = 0 (0 or -0) or n > 0
Signum(n) == IF ~n.infinite /\ n.digits = <<>> THEN 0 ELSE n.sign

\* the powers of ten of the first digit of the largest and of the smallest Number
MaxExponent == 308
MinExponent == 0 - 324
\* past every power of ten of a finite Number other than 0, in both directions
Beyond == 1 - MinExponent

\* every significant digit of 2^1024 - 2^970, half way between the largest finite
\* Number and 2^1024: from it on a value rounds to Infinity (the tie goes to the
\* even significand, that of 2^1024)
OverflowDigits == <<
    1, 7, 9, 7, 6, 9, 3, 1, 3, 4, 8, 6, 2, 3, 1, 5, 8, 0, 7, 9, 3, 7, 2, 8, 9, 7, 1, 4, 0, 5,
    3, 0, 3, 4, 1, 5, 0, 7, 9, 9, 3, 4, 1, 3, 2, 7, 1, 0, 0, 3, 7, 8, 2, 6, 9, 3, 6, 1, 7, 3,
    7, 7, 8, 9, 8, 0, 4, 4, 4, 9, 6, 8, 2, 9, 2, 7, 6, 4, 7, 5, 0, 9, 4, 6, 6, 4, 9, 0, 1, 7,
    9, 7, 7, 5, 8, 7, 2, 0, 7, 0, 9, 6, 3, 3, 0, 2, 8, 6, 4, 1, 6, 6, 9, 2, 8, 8, 7, 9, 1, 0,
    9, 4, 6, 5, 5, 5, 5, 4, 7, 8, 5, 1, 9, 4, 0, 4, 0, 2, 6, 3, 0, 6, 5, 7, 4, 8, 8, 6, 7, 1,
    5, 0, 5, 8, 2, 0, 6, 8, 1, 9, 0, 8, 9, 0, 2, 0, 0, 0, 7, 0, 8, 3, 8, 3, 6, 7, 6, 2, 7, 3,
    8, 5, 4, 8, 4, 5, 8, 1, 7, 7, 1, 1, 5, 3, 1, 7, 6, 4, 4, 7, 5, 7, 3, 0, 2, 7, 0, 0, 6, 9,
    8, 5, 5, 5, 7, 1, 3, 6, 6, 9, 5, 9, 6, 2, 2, 8, 4, 2, 9, 1, 4, 8, 1, 9, 8, 6, 0, 8, 3, 4,
    9, 3, 6, 4, 7, 5, 2, 9, 2, 7, 1, 9, 0, 7, 4, 1, 6, 8, 4, 4, 4, 3, 6, 5, 5, 1, 0, 7, 0, 4,
    3, 4, 2, 7, 1, 1, 5, 5, 9, 6, 9, 9, 5, 0, 8, 0, 9, 3, 0, 4, 2, 8, 8, 0, 1, 7, 7, 9, 0, 4,
    1, 7, 4, 4, 9, 7, 7, 9, 2>>

\* every significant digit of 2^-1075, half of the smallest Number: up to it a
\* value rounds to 0 (the tie goes to the even significand, that of 0), above it
\* to a Number other than 0
UnderflowDigits == <<
    2, 4, 7, 0, 3, 2, 8, 2, 2, 9, 2, 0, 6, 2, 3, 2, 7, 2, 0, 8, 8, 2, 8, 4, 3, 9, 6, 4, 3, 4,
    1, 1, 0, 6, 8, 6, 1, 8, 2, 5, 2, 9, 9, 0, 1, 3, 0, 7, 1, 6, 2, 3, 8, 2, 2, 1, 2, 7, 9, 2,
    8, 4, 1, 2, 5, 0, 3, 3, 7, 7, 5, 3, 6, 3, 5, 1, 0, 4, 3, 7, 5, 9, 3, 2, 6, 4, 9, 9, 1, 8,
    1, 8, 0, 8, 1, 7, 9, 9, 6, 1, 8, 9, 8, 9, 8, 2, 8, 2, 3, 4, 7, 7, 2, 2, 8, 5, 8, 8, 6, 5,
    4, 6, 3, 3, 2, 8, 3, 5, 5, 1, 7, 7, 9, 6, 9, 8, 9, 8, 1, 9, 9, 3, 8, 7, 3, 9, 8, 0, 0, 5,
    3, 9, 0, 9, 3, 9, 0, 6, 3, 1, 5, 0, 3, 5, 6, 5, 9, 5, 1, 5, 5, 7, 0, 2, 2, 6, 3, 9, 2, 2,
    9, 0, 8, 5, 8, 3, 9, 2, 4, 4, 9, 1, 0, 5, 1, 8, 4, 4, 3, 5, 9, 3, 1, 8, 0, 2, 8, 4, 9, 9,
    3, 6, 5, 3, 6, 1, 5, 2, 5, 0, 0, 3, 1, 9, 3, 7, 0, 4, 5, 7, 6, 7, 8, 2, 4, 9, 2, 1, 9, 3,
    6, 5, 6, 2, 3, 6, 6, 9, 8, 6, 3, 6, 5, 8, 4, 8, 0, 7, 5, 7, 0, 0, 1, 5, 8, 5, 7, 6, 9, 2,
    6, 9, 9, 0, 3, 7, 0, 6, 3, 1, 1, 9, 2, 8, 2, 7, 9, 5, 5, 8, 5, 5, 1, 3, 3, 2, 9, 2, 7, 8,
    3, 4, 3, 3, 8, 4, 0, 9, 3, 5, 1, 9, 7, 8, 0, 1, 5, 5, 3, 1, 2, 4, 6, 5, 9, 7, 2, 6, 3, 5,
    7, 9, 5, 7, 4, 6, 2, 2, 7, 6, 6, 4, 6, 5, 2, 7, 2, 8, 2, 7, 2, 2, 0, 0, 5, 6, 3, 7, 4, 0,
    0, 6, 4, 8, 5, 4, 9, 9, 9, 7, 7, 0, 9, 6, 5, 9, 9, 4, 7, 0, 4, 5, 4, 0, 2, 0, 8, 2, 8, 1,
    6, 6, 2, 2, 6, 2, 3, 7, 8, 5, 7, 3, 9, 3, 4, 5, 0, 7, 3, 6, 3, 3, 9, 0, 0, 7, 9, 6, 7, 7,
    6, 1, 9, 3, 0, 5, 7, 7, 5, 0, 6, 7, 4, 0, 1, 7, 6, 3, 2, 4, 6, 7, 3, 6, 0, 0, 9, 6, 8, 9,
    5, 1, 3, 4, 0, 5, 3, 5, 5, 3, 7, 4, 5, 8, 5, 1, 6, 6, 6, 1, 1, 3, 4, 2, 2, 3, 7, 6, 6, 6,
    7, 8, 6, 0, 4, 1, 6, 2, 1, 5, 9, 6, 8, 0, 4, 6, 1, 9, 1, 4, 4, 6, 7, 2, 9, 1, 8, 4, 0, 3,
    0, 0, 5, 3, 0, 0, 5, 7, 5, 3, 0, 8, 4, 9, 0, 4, 8, 7, 6, 5, 3, 9, 1, 7, 1, 1, 3, 8, 6, 5,
    9, 1, 6, 4, 6, 2, 3, 9, 5, 2, 4, 9, 1, 2, 6, 2, 3, 6, 5, 3, 8, 8, 1, 8, 7, 9, 6, 3, 6, 2,
    3, 9, 3, 7, 3, 2, 8, 0, 4, 2, 3, 8, 9, 1, 0, 1, 8, 6, 7, 2, 3, 4, 8, 4, 9, 7, 6, 6, 8, 2,
    3, 5, 0, 8, 9, 8, 6, 3, 3, 8, 8, 5, 8, 7, 9, 2, 5, 6, 2, 8, 3, 0, 2, 7, 5, 5, 9, 9, 5, 6,
    5, 7, 5, 2, 4, 4, 5, 5, 5, 0, 7, 2, 5, 5, 1, 8, 9, 3, 1, 3, 6, 9, 0, 8, 3, 6, 2, 5, 4, 7,
    7, 9, 1, 8, 6, 9, 4, 8, 6, 6, 7, 9, 9, 4, 9, 6, 8, 3, 2, 4, 0, 4, 9, 7, 0, 5, 8, 2, 1, 0,
    2, 8, 5, 1, 3, 1, 8, 5, 4, 5, 1, 3, 9, 6, 2, 1, 3, 8, 3, 7, 7, 2, 2, 8, 2, 6, 1, 4, 5, 4,
    3, 7, 6, 9, 3, 4, 1, 2, 5, 3, 2, 0, 9, 8, 5, 9, 1, 3, 2, 7, 6, 6, 7, 2, 3, 6, 3, 2, 8, 1,
    2, 5>>

\* digits, followed by zeros, come after limit, followed by zeros, in the order
\* of numbers
DigitsAbove(digits, limit) ==
    LET at(d, i) == IF i <= Len(d) THEN d[i] ELSE 0
        longer == IF Len(digits) > Len(limit) THEN Len(digits) ELSE Len(limit)
        differ == {i \in 1..longer : at(digits, i) # at(limit, i)}
    IN  differ # {} /\ at(digits, Least(differ)) > at(limit, Least(differ))

(***************************************************************************)
(* The white space of the language: WhiteSpace (tab, vertical tab, form    *)
(* feed, U+FEFF and the space separators U+0020, U+00A0, U+1680, U+2000 to *)
(* U+200A, U+202F, U+205F, U+3000) and LineTerminator (line feed, carriage *)
(* return, U+2028, U+2029).  A character that a string of this module      *)
(* cannot hold stands in a field as its code point, "U+2028".              *)
(***************************************************************************)
WhiteSpace ==
    {" ", "\t", "\n", "\r", "\f", "", " ", " ", "﻿",
     "U+2000", "U+2001", "U+2002", "U+2003", "U+2004", "U+2005",
     "U+2006", "U+2007", "U+2008", "U+2009", "U+200A", "U+2028",
     "U+2029", "U+202F", "U+205F", "U+3000"}
INFINITY == <<"I", "n", "f", "i", "n", "i", "t", "y">>

\* the position of the first character of s from i on that is not white space,
\* the one after the last character when there is none
SkipWhiteSpace(s, i) ==
    LET others == {j \in i..Len(s) : s[j] \notin WhiteSpace}
    IN  IF others # {} THEN Least(others)
        ELSE IF i > Len(s) THEN i ELSE Len(s) + 1

\* how many "0" characters s has from position i on, before any other character
ZerosFrom(s, i) ==
    LET others == {j \in i..Len(s) : s[j] # "0"}
    IN  IF others # {} THEN Least(others) - i
        ELSE IF i > Len(s) THEN 0 ELSE Len(s) - i + 1

StartsWith(s, i, word) ==
    /\ i + Len(word) - 1 <= Len(s)
    /\ \A j \in 1..Len(word) : s[i + j - 1] = word[j]

(***************************************************************************)
(* The exponent of a literal is read in full, as high * Billion + low.     *)
(* One of MaxExponentDigits + 1 digits or more is read as 10 * Billion:    *)
(* the positions of a sequence are below 2^31, so the digits of a mantissa *)
(* move the power of ten of its first digit by less than 2^31, and the     *)
(* Number is Infinity or 0 all the same.                                   *)
(***************************************************************************)
Billion == 10 ^ 9
MaxExponentDigits == 10

\* the number written by the digits of s that start at position first, zeros of
\* them being "0" characters at the front
ExponentValue(s, first, digits, zeros) ==
    IF digits - zeros > MaxExponentDigits
    THEN [high |-> 10, low |-> 0]
    ELSE IF digits - zeros = MaxExponentDigits
    THEN [high |-> DigitValue(s[first + zeros]),
          low |-> DecimalValue(s, first + digits - 1, MaxExponentDigits - 1)]
    ELSE [high |-> 0, low |-> DecimalValue(s, first + digits - 1, digits - zeros)]

\* the exponent of a literal whose mantissa ends before position e: the number
\* written after e or E and an optional sign, 0 when no digit follows
ExponentPart(s, e) ==
    IF ~(e <= Len(s) /\ s[e] \in {"e", "E"})
    THEN [negative |-> FALSE, value |-> [high |-> 0, low |-> 0]]
    ELSE IF e + 1 <= Len(s) /\ s[e + 1] = "-"
    THEN [negative |-> TRUE,
          value |-> ExponentValue(s, e + 2, DigitsFrom(s, e + 2), ZerosFrom(s, e + 2))]
    ELSE IF e + 1 <= Len(s) /\ s[e + 1] = "+"
    THEN [negative |-> FALSE,
          value |-> ExponentValue(s, e + 2, DigitsFrom(s, e + 2), ZerosFrom(s, e + 2))]
    ELSE [negative |-> FALSE,
          value |-> ExponentValue(s, e + 1, DigitsFrom(s, e + 1), ZerosFrom(s, e + 1))]

\* value + by, exactly when it lies from -Beyond to Beyond, and -Beyond or Beyond
\* when it lies below or above; by is an integer of magnitude below 2^31 and no
\* step leaves the integers of that magnitude
Shifted(value, by) ==
    IF by >= 0
    THEN IF value.high > 0 \/ value.low > Beyond \/ by > Beyond THEN Beyond
         ELSE IF value.low + by > Beyond THEN Beyond ELSE value.low + by
    ELSE IF value.high >= 3 THEN Beyond
    ELSE IF value.low + by > Beyond - value.high * Billion THEN Beyond
    ELSE IF value.low + by < (0 - Beyond) - value.high * Billion THEN 0 - Beyond
    ELSE (value.low + by) + value.high * Billion

\* the power of ten of a digit that stands at the power of ten place in the
\* mantissa of a literal of this exponent, within -Beyond..Beyond as in Shifted
PowerOfTen(exponent, place) ==
    IF exponent.negative
    THEN 0 - Shifted(exponent.value, 0 - place)
    ELSE Shifted(exponent.value, place)

\* the Number nearest to sign * digits, the first of them at the power of ten
\* leading
Rounded(sign, digits, leading) ==
    IF leading > MaxExponent
          \/ (leading = MaxExponent /\ ~DigitsAbove(OverflowDigits, digits))
    THEN Infinity(sign)
    ELSE IF leading < MinExponent
               \/ (leading = MinExponent /\ ~DigitsAbove(digits, UnderflowDigits))
    THEN Zero(sign)
    ELSE Written(sign, digits, leading)

\* the Number nearest to sign * (the number written by the digits all, whole of
\* them before the point) * 10^exponent
Nearest(sign, all, whole, exponent) ==
    LET nonZero == {i \in 1..Len(all) : all[i] # 0}
        first == Least(nonZero)
        last == Len(all) - Least({k \in 0..(Len(all) - 1) : all[Len(all) - k] # 0})
    IN  IF nonZero = {} THEN Zero(sign)
        ELSE Rounded(sign, SubSeq(all, first, last), PowerOfTen(exponent, whole - first))

\* the literal whose digits start at position first: whole digits before the
\* point, fraction digits after it; a point belongs to the literal when digits
\* come before or after it
DecimalLiteral(s, sign, first, whole, fraction) ==
    IF whole + fraction = 0
    THEN [isNaN |-> TRUE, value |-> Zero(1)]
    ELSE LET dot == first + whole
             pointed == dot <= Len(s) /\ s[dot] = "."
             all == [j \in 1..(whole + fraction) |->
                        DigitValue(s[IF j <= whole THEN first + j - 1 ELSE dot + (j - whole)])]
             e == IF pointed THEN dot + 1 + fraction ELSE dot
         IN  [isNaN |-> FALSE,
              value |-> Nearest(sign, all, whole, ExponentPart(s, e))]

DigitsLiteral(s, sign, first, whole) ==
    DecimalLiteral(s, sign, first, whole,
                   IF first + whole <= Len(s) /\ s[first + whole] = "."
                   THEN DigitsFrom(s, first + whole + 1)
                   ELSE 0)

\* the literal that starts at position first, after the sign
UnsignedLiteral(s, sign, first) ==
    IF StartsWith(s, first, INFINITY)
    THEN [isNaN |-> FALSE, value |-> Infinity(sign)]
    ELSE DigitsLiteral(s, sign, first, DigitsFrom(s, first))

\* the literal that starts at position start, after the leading white space
SignedLiteral(s, start) ==
    IF start <= Len(s) /\ s[start] = "-" THEN UnsignedLiteral(s, 0 - 1, start + 1)
    ELSE IF start <= Len(s) /\ s[start] = "+" THEN UnsignedLiteral(s, 1, start + 1)
    ELSE UnsignedLiteral(s, 1, start)

\* parseFloat: leading white space is skipped; then the longest prefix that is a
\* decimal literal is read: an optional sign, then Infinity, or digits with an
\* optional fraction (or a fraction alone) and an optional exponent; what follows
\* is ignored; NaN when there is no such prefix
parseFloat(s) == SignedLiteral(s, SkipWhiteSpace(s, 1))

\* the lines of the content that are not empty, with their line numbers
NonEmptyLines(lines) == SelectSeq([i \in 1..Len(lines) |-> [line |-> i, record |-> lines[i]]],
                                  LAMBDA l : l.record # <<>>)

\* parse(fileContent, {columns: false, skip_empty_lines: true}): the records, or
\* the error for the first record that is not as long as the first one
parse(lines) ==
    LET kept == NonEmptyLines(lines)
        odd == {k \in 1..Len(kept) : Len(kept[k].record) # Len(kept[1].record)}
        k == CHOOSE k \in odd : \A j \in odd : k <= j
    IN  IF odd = {}
        THEN Return([i \in 1..Len(kept) |-> kept[i].record])
        ELSE CsvError(Len(kept[1].record), Len(kept[k].record), kept[k].line)

\* the callback of records.map in readAccountBalances, for the index-th record
\* no companyId: what a call that passes none makes of the data
NoCompanyId == [field \in {} |-> Undefined]

\* the callback for a call whose companyId makes the fields given of the data:
\* [companyId |-> companyId], or NoCompanyId
accountOfRecordGiven(record, index, filePath, given) ==
    IF Len(record) # 2
    THEN InvalidCsvFormatError(filePath,
             <<"Line ", index, ": Expected 2 columns (account number, balance), got ",
               Len(record)>>)
    ELSE LET balance == parseFloat(record[2]) IN
    IF balance.isNaN
    THEN InvalidCsvFormatError(filePath,
             <<"Line ", index, ": Invalid balance format: ", record[2]>>)
    ELSE LET data == [accountNumber |-> record[1], balance |-> balance.value] @@ given
             \* z.number().min(0) looks at the sign of the balance
             issues == AccountIssues([data EXCEPT !.balance = Signum(@)])
         IN  IF issues # <<>> THEN ZodError(issues) ELSE Return(data)

accountOfRecord(record, index, filePath, companyId) ==
    accountOfRecordGiven(record, index, filePath, [companyId |-> companyId])

\* the callback of records.map in readTransactions
transactionOfRecord(record, index, filePath, companyId) ==
    IF Len(record) # 3
    THEN InvalidCsvFormatError(filePath,
             <<"Line ", index, ": Expected 3 columns (from, to, amount), got ", Len(record)>>)
    ELSE LET amount == parseFloat(record[3]) IN
    IF amount.isNaN
    THEN InvalidCsvFormatError(filePath,
             <<"Line ", index, ": Invalid amount format: ", record[3]>>)
    ELSE LET \* TransactionSchema.parse keeps the keys of the schema, and companyId,
             \* which the callback passes as well, is not one of them
             data == [fromAccount |-> record[1], toAccount |-> record[2],
                      amount |-> amount.value]
             \* z.number().positive() looks at the sign of the amount
             issues == TransactionIssues([data EXCEPT !.amount = Signum(@)])
         IN  IF issues # <<>> THEN ZodError(issues) ELSE Return(data)

\* records.map(callback): the entities, or what the first failing callback throws
mapRecords(outcomes) ==
    LET thrown == {i \in 1..Len(outcomes) : outcomes[i].kind = "throw"}
    IN  IF thrown = {}
        THEN Return([i \in 1..Len(outcomes) |-> outcomes[i].value])
        ELSE outcomes[CHOOSE i \in thrown : \A j \in thrown : i <= j]

\* faulty variant of readCaught: whatever was thrown is thrown on
readCaughtThrowsOn(filePath, tried) == tried

\* the catch block of both readers, applied to the outcome of the try block
readCaught(filePath, tried) ==
    IF tried.kind = "return" THEN tried
    ELSE IF tried.name = "InvalidCsvFormatError" THEN tried
    ELSE FileSystemError(filePath, "read",
                         IF InstanceOfError(tried) THEN tried.message ELSE "Unknown error")

\* readAccountBalances for a call whose companyId makes the fields given
readAccountBalancesGiven(file, filePath, given) ==
    readCaught(filePath,
        IF file.kind = "throw" THEN file
        ELSE IF parse(file.value).kind = "throw" THEN parse(file.value)
        ELSE LET records == parse(file.value).value
             IN  mapRecords([i \in 1..Len(records) |->
                                accountOfRecordGiven(records[i], i, filePath, given)]))

readAccountBalances(file, filePath, companyId) ==
    readAccountBalancesGiven(file, filePath, [companyId |-> companyId])

readTransactions(file, filePath, companyId) ==
    readCaught(filePath,
        IF file.kind = "throw" THEN file
        ELSE IF parse(file.value).kind = "throw" THEN parse(file.value)
        ELSE LET records == parse(file.value).value
             IN  mapRecords([i \in 1..Len(records) |->
                                transactionOfRecord(records[i], i, filePath, companyId)]))

\* what fs.readFileSync can throw
ReadFailures ==
    {Throw("Error", <<"File not found">>),
     Throw("TypeError", <<"Some unexpected error">>),
     NotAnError}

AccountLines ==
    {<<>>, <<ACC_A, F_ONE>>, <<ACC_A, F_ONE, F_ONE>>, <<ACC_A, F_WORD>>,
     <<BAD_ALPHA, F_ONE>>, <<ACC_B, F_ONE_THEN_LETTER>>, <<ACC_B, F_HALF>>,
     <<ACC_A, F_INFINITY>>, <<ACC_B, F_NEGATIVE_INFINITY>>}

TransactionLines ==
    {<<>>, <<ACC_A, ACC_B, F_ONE>>, <<ACC_A, ACC_B>>, <<ACC_A, ACC_B, F_WORD>>,
     <<BAD_SHORT, ACC_B, F_ONE>>, <<ACC_A, ACC_B, F_ZERO>>,
     <<ACC_B, ACC_A, F_ONE_THEN_LETTER>>, <<ACC_A, ACC_B, F_TINY>>,
     <<ACC_B, ACC_A, F_TAB_THEN_ONE>>}

Files(lines) ==
    {Return(content) : content \in UNION {[1..n -> lines] : n \in 0..MaxLines}}
    \cup ReadFailures

InitReader ==
    /\ tenantAware = TRUE
    /\ heap = <<>>
    /\ accounts = <<>>
    /\ call = [op |-> "none", args |-> <<>>, outcome |-> Void, before |-> <<>>]
    /\ initial = <<>>
    /\ net = <<>>
    /\ run = NoRun

ReadAccountBalances ==
    \E file \in Files(AccountLines) :
        Called("readAccountBalances", [file |-> file, companyId |-> COMPANY_ID],
               [heap |-> heap, outcome |-> readAccountBalances(file, FILE_PATH, COMPANY_ID)])

ReadTransactions ==
    \E file \in Files(TransactionLines) :
        Called("readTransactions", [file |-> file, companyId |-> COMPANY_ID],
               [heap |-> heap, outcome |-> readTransactions(file, FILE_PATH, COMPANY_ID)])

NextReader ==
    \/ ReadAccountBalances
    \/ ReadTransactions

SpecReader == InitReader /\ [][NextReader]_vars

(***************************************************************************)
(* Vocabulary of the readers' claims                                       *)
(***************************************************************************)
IsRead == call.op \in {"readAccountBalances", "readTransactions"}
FileRead == call.args.file.kind = "return"
\* the rows of the file read: its lines that are not empty
Rows == SelectSeq(call.args.file.value, LAMBDA line : line # <<>>)
Columns == IF call.op = "readAccountBalances" THEN 2 ELSE 3

\* the field is a number written out: an optional sign, then digits, then an
\* optional fraction, and nothing else
IsNumeral(s) ==
    LET first == IF Len(s) >= 1 /\ s[1] \in {"-", "+"} THEN 2 ELSE 1
        whole == DigitsFrom(s, first)
        dot == first + whole
    IN  /\ whole >= 1
        /\ \/ dot = Len(s) + 1
           \/ /\ dot < Len(s)
              /\ s[dot] = "."
              /\ DigitsFrom(s, dot + 1) = Len(s) - dot

WrongColumnCount(row) == Len(row) # Columns
NotANumber(row) == Len(row) = Columns /\ ~IsNumeral(row[Columns])
BadAccountNumber(row) ==
    /\ Len(row) = Columns
    /\ \E i \in 1..(Columns - 1) : ~IsAccountNumber(row[i])

(***************************************************************************)
(* C24 as claimed: readAccountBalances and readTransactions reject a file  *)
(* with a malformed row with InvalidCsvFormatError in each of the three    *)
(* cases: wrong column count, a balance or amount that is not a number,    *)
(* an account number that is not 16 digits; nothing is returned from such  *)
(* a file.                                                                 *)
(***************************************************************************)
C24_AsClaimed ==
    (IsRead /\ FileRead) =>
        \A i \in 1..Len(Rows) :
            (WrongColumnCount(Rows[i]) \/ NotANumber(Rows[i]) \/ BadAccountNumber(Rows[i]))
                => Threw("InvalidCsvFormatError")

\* what the code does for a file whose only fault is an account number: the
\* ZodError of the constructor is reported as a FileSystemError
C24_BadNumberIsFileSystemError ==
    (/\ IsRead /\ FileRead
     /\ \A i \in 1..Len(Rows) : ~WrongColumnCount(Rows[i]) /\ ~NotANumber(Rows[i])
     /\ \E i \in 1..Len(Rows) : BadAccountNumber(Rows[i])) =>
        /\ Threw("FileSystemError")
        /\ call.outcome.message[6][1] = "issues"

\* a file whose only row has a malformed account number has been refused, as a
\* FileSystemError
C24_Witness ==
    /\ call.op = "readAccountBalances" /\ FileRead
    /\ Len(Rows) = 1
    /\ BadAccountNumber(Rows[1])
    /\ Threw("FileSystemError")

\* a balance that is not a number has been read as the number it starts with
C24_WitnessPrefix ==
    /\ call.op = "readAccountBalances" /\ FileRead
    /\ Len(Rows) = 1
    /\ NotANumber(Rows[1])
    /\ Rows[1][2] = F_ONE_THEN_LETTER
    /\ Returned
    /\ call.outcome.value[1].balance = Written(1, <<1>>, 0)

\* a balance of Infinity has been read from a file
C24_WitnessInfinity ==
    /\ call.op = "readAccountBalances" /\ FileRead
    /\ Len(Rows) = 1
    /\ NotANumber(Rows[1])
    /\ Rows[1][2] = F_INFINITY
    /\ Returned
    /\ call.outcome.value[1].balance = Infinity(1)

\* a balance with a fraction has been read from a file
C24_WitnessFraction ==
    /\ call.op = "readAccountBalances" /\ FileRead
    /\ Len(Rows) = 1
    /\ ~NotANumber(Rows[1])
    /\ Returned
    /\ call.outcome.value[1].balance = Written(1, <<5>>, 0 - 1)

\* an amount written after a vertical tab has been read from a file
C24_WitnessWhiteSpace ==
    /\ call.op = "readTransactions" /\ FileRead
    /\ Len(Rows) = 1 /\ Len(Rows[1]) = 3
    /\ Rows[1][3] = F_TAB_THEN_ONE
    /\ Returned
    /\ call.outcome.value[1] =
           [fromAccount |-> ACC_B, toAccount |-> ACC_A, amount |-> Written(1, <<1>>, 0)]

\* an amount too small for a Number has been read as 0 and refused by the
\* constructor, which the reader reports as a FileSystemError
C24_WitnessUnderflow ==
    /\ call.op = "readTransactions" /\ FileRead
    /\ Len(Rows) = 1 /\ Len(Rows[1]) = 3
    /\ Rows[1][3] = F_TINY
    /\ Threw("FileSystemError")
    /\ call.outcome.message[6] = <<"issues", <<"amount">>>>

(***************************************************************************)
(* C25: readAccountBalances and readTransactions surface only two error    *)
(* kinds: an InvalidCsvFormatError raised while the rows are parsed is     *)
(* rethrown unchanged, and every other failure (the file read throwing an  *)
(* Error, a TypeError or a value that is not an Error) is reported as      *)
(* FileSystemError; an empty file yields an empty list without error.      *)
(***************************************************************************)
\* what the callback of map does for the i-th row
C25_Callback(i) ==
    IF call.op = "readAccountBalances"
    THEN accountOfRecord(Rows[i], i, FILE_PATH, call.args.companyId)
    ELSE transactionOfRecord(Rows[i], i, FILE_PATH, call.args.companyId)

C25_TwoErrorKinds ==
    IsRead =>
        /\ Returned \/ Threw("InvalidCsvFormatError") \/ Threw("FileSystemError")
        /\ ~FileRead =>
              /\ Threw("FileSystemError")
              /\ call.outcome.message[2] = FILE_PATH
              /\ call.outcome.message[4] = "read"
              /\ IF InstanceOfError(call.args.file)
                 THEN call.outcome.message[6] = call.args.file.message
                 ELSE call.outcome.message[6] = "Unknown error"
        /\ Threw("InvalidCsvFormatError") =>
              /\ FileRead
              /\ \E i \in 1..Len(Rows) :
                    /\ WrongColumnCount(Rows[i]) \/ NotANumber(Rows[i])
                    /\ call.outcome = C25_Callback(i)
        /\ (FileRead /\ call.args.file.value = <<>>) => call.outcome = Return(<<>>)
        /\ NothingChanged

\* a read that threw a value that is not an Error has been reported
C25_Witness ==
    /\ IsRead /\ ~FileRead
    /\ ~InstanceOfError(call.args.file)
    /\ Threw("FileSystemError")
    /\ call.outcome.message[6] = "Unknown error"

\* the InvalidCsvFormatError of a second row has come through
C25_WitnessRethrown ==
    /\ IsRead /\ FileRead
    /\ Threw("InvalidCsvFormatError")
    /\ call.outcome.message[4][2] = 2

\* an empty file has been read
C25_WitnessEmpty ==
    /\ IsRead /\ FileRead
    /\ call.args.file.value = <<>>
    /\ call.outcome = Return(<<>>)

(***************************************************************************)
(* main: the two files are read and the plain service is constructed from  *)
(* the accounts read; then the transactions read are processed one by one. *)
(* A read that throws ends the run in the catch block around all of main.  *)
(* run.out is the console, line by line; run.attempted is the history of   *)
(* the entities handed to processTransaction.                              *)
(*                                                                         *)
(* main calls both readers with the path alone.  The reader of that shape  *)
(* is not among the sources: what it returns for a well-formed file is the *)
(* list of the entities of its rows.  readAccountBalances as the sources   *)
(* have it takes the companyId as well, which is undefined in this call:   *)
(* the AccountEntity constructor then refuses every row, so that it        *)
(* returns the empty list of an empty file and throws for any other file.  *)
(* readTransactions returns the entities either way: the TransactionSchema *)
(* has no companyId.  What a reader throws is what the catch block of the  *)
(* reader makes of the failure, as in FileReaderService.                   *)
(***************************************************************************)
MaxTransactions == 2    \* the input list holds up to MaxTransactions transactions

ACCOUNTS_PATH == "./data/mable_account_balances.csv"
TRANSACTIONS_PATH == "./data/mable_transactions.csv"

\* what fs.readFileSync throws for a path it cannot read: there is no such file,
\* the path is a directory, the file may not be read
FsFailures(filePath) ==
    {Throw("Error", <<"ENOENT: no such file or directory, open '", filePath, "'">>),
     Throw("Error", <<"EISDIR: illegal operation on a directory, read">>),
     Throw("Error", <<"EACCES: permission denied, open '", filePath, "'">>)}

\* what fs.readFileSync does for the path of a file of main
MainFiles(lines, filePath) ==
    {Return(content) : content \in UNION {[1..n -> lines] : n \in 0..MaxLines}}
    \cup FsFailures(filePath)

\* Number.prototype.toFixed(2) of a whole number: its digits, then ".00"
toFixed(x) == <<x, ".00">>

ConsoleLog(text) == [stream |-> "log", text |-> text]
ConsoleError(text) == [stream |-> "error", text |-> text]

\* the catch block around all of main
ErrorProcessingFiles(error) ==
    IF InstanceOfError(error)
    THEN ConsoleError(<<"Error processing files:", error.message>>)
    ELSE ConsoleError(<<"Error processing files: Unknown error">>)

\* `Account ${account.getAccountNumber()}: $${account.getBalance().toFixed(2)}`
AccountLine(account) ==
    ConsoleLog(<<"Account ", getAccountNumber(account), ": $", toFixed(getBalance(account))>>)

ProcessedLine(transaction) ==
    ConsoleLog(<<"Processed: $", toFixed(transaction.amount), " from ",
                 transaction.fromAccount, " to ", transaction.toAccount>>)

FailedLine(outcome) ==
    ConsoleError(<<"Failed to process transaction: ", outcome.message>>)

\* faulty variant of afterTransaction: the error of a transaction is not caught
\* in the loop; it ends the run in the outer catch
afterTransactionUncaught(r, transaction, outcome) ==
    IF outcome.kind = "return"
    THEN [r EXCEPT !.index = @ + 1,
                   !.attempted = Append(@, transaction),
                   !.out = Append(@, ProcessedLine(transaction))]
    ELSE [r EXCEPT !.pc = "failed",
                   !.attempted = Append(@, transaction),
                   !.out = Append(@, ErrorProcessingFiles(outcome))]

\* one turn of transactions.forEach, after processTransaction has returned or thrown
afterTransaction(r, transaction, outcome) ==
    [r EXCEPT !.index = @ + 1,
              !.attempted = Append(@, transaction),
              !.out = Append(@, IF outcome.kind = "return"
                                THEN ProcessedLine(transaction)
                                ELSE FailedLine(outcome))]

TransactionLists ==
    UNION {[1..n -> TransactionEntities(FALSE)] : n \in 0..MaxTransactions}

\* main has been called: nothing is read yet
InitMain ==
    /\ tenantAware = FALSE
    /\ heap = <<>>
    /\ accounts = <<>>
    /\ call = [op |-> "none", args |-> <<>>, outcome |-> Void, before |-> <<>>]
    /\ initial = <<>>
    /\ net = <<>>
    /\ run = [pc |-> "start", transactions |-> <<>>, index |-> 1,
              attempted |-> <<>>, out |-> <<>>]

\* readAccountBalances returns the accounts, of which the service is constructed,
\* or throws, which the catch block around all of main reports: for a file that
\* cannot be read, for a malformed row, and, from the reader of the sources, for
\* a well-formed row too, whose account lacks the companyId
MainReadAccountBalances ==
    /\ run.pc = "start"
    /\ \/ \E initialAccounts \in InitialCollections(FALSE) :
             /\ heap' = initialAccounts
             /\ accounts' = BankingServiceConstructor(initialAccounts, Len(initialAccounts))
             /\ call' = [op |-> "constructor", args |-> <<>>, outcome |-> Void,
                         before |-> initialAccounts]
             /\ initial' = [i \in 1..Len(initialAccounts) |-> initialAccounts[i].balance]
             /\ net' = [i \in 1..Len(initialAccounts) |-> 0]
             /\ run' = [run EXCEPT !.pc = "accounts"]
       \/ \E file \in MainFiles(AccountLines, ACCOUNTS_PATH) :
             LET read == readAccountBalancesGiven(file, ACCOUNTS_PATH, NoCompanyId)
             IN  /\ read.kind = "throw"
                 /\ call' = [op |-> "readAccountBalances", args |-> <<>>,
                             outcome |-> read, before |-> heap]
                 /\ run' = [run EXCEPT !.pc = "failed",
                                       !.out = <<ErrorProcessingFiles(read)>>]
                 /\ UNCHANGED <<heap, accounts, initial, net>>
    /\ UNCHANGED tenantAware

\* readTransactions returns the input list, or throws, which the catch block
\* around all of main reports
MainReadTransactions ==
    /\ run.pc = "accounts"
    /\ \/ \E transactions \in TransactionLists :
             /\ run' = [run EXCEPT !.pc = "initial", !.transactions = transactions]
             /\ UNCHANGED call
       \/ \E file \in MainFiles(TransactionLines, TRANSACTIONS_PATH) :
             LET read == readTransactions(file, TRANSACTIONS_PATH, Undefined)
             IN  /\ read.kind = "throw"
                 /\ call' = [op |-> "readTransactions", args |-> <<>>,
                             outcome |-> read, before |-> heap]
                 /\ run' = [run EXCEPT !.pc = "failed",
                                       !.out = <<ErrorProcessingFiles(read)>>]
    /\ UNCHANGED <<tenantAware, heap, accounts, initial, net>>

\* the initial balances, from the array of accounts read
MainInitialBalances ==
    /\ run.pc = "initial"
    /\ run' = [run EXCEPT
                  !.pc = "loop",
                  !.out = <<ConsoleLog(<<"Initial Account Balances:">>)>>
                          \o [i \in 1..Len(heap) |-> AccountLine(heap[i])]
                          \o <<ConsoleLog(<<"\nProcessing Transactions...">>)>>]
    /\ UNCHANGED <<tenantAware, heap, accounts, call, initial, net>>

\* one turn of the loop: try { processTransaction(transaction) ... } catch { ... }
MainProcessTransaction ==
    /\ run.pc = "loop"
    /\ run.index <= Len(run.transactions)
    /\ LET transaction == run.transactions[run.index]
           result == processTransaction(accounts, heap, transaction)
       IN  /\ heap' = result.heap
           /\ call' = [op |-> "processTransaction", args |-> transaction,
                       outcome |-> result.outcome, before |-> heap]
           /\ net' = IF result.outcome = Void THEN Booked(net, accounts, transaction) ELSE net
           /\ run' = afterTransaction(run, transaction, result.outcome)
    /\ UNCHANGED <<tenantAware, accounts, initial>>

\* the final balances, from bankingService.getAllAccounts()
MainFinalBalances ==
    /\ run.pc = "loop"
    /\ run.index > Len(run.transactions)
    /\ LET all == getAllAccounts(accounts, heap).outcome.value
       IN  run' = [run EXCEPT
                      !.pc = "done",
                      !.out = @ \o <<ConsoleLog(<<"\nFinal Account Balances:">>)>>
                                \o [i \in 1..Len(all) |-> AccountLine(heap[all[i]])]]
    /\ UNCHANGED <<tenantAware, heap, accounts, call, initial, net>>

NextMain ==
    \/ MainReadAccountBalances
    \/ MainReadTransactions
    \/ MainInitialBalances
    \/ MainProcessTransaction
    \/ MainFinalBalances

SpecMain == InitMain /\ [][NextMain]_vars

\* main is one synchronous call: it goes on for as long as it has a next step
SpecMainFair == SpecMain /\ WF_vars(NextMain)

(***************************************************************************)
(* C13: the loop of main attempts every transfer of the input list exactly *)
(* once, in list order, whatever the outcome of the earlier ones: a        *)
(* failing transfer is logged, and the next one is still processed; and    *)
(* the run eventually reaches the report of the final balances after the   *)
(* last transfer.  The input list is there once both files are read: from  *)
(* then on no run ends before the report, and every run ends.  A run ends  *)
(* without the report only in the catch block around all of main, which    *)
(* only a failed read reaches, before any transfer is attempted.           *)
(***************************************************************************)
\* the console line of the k-th turn of the loop
C13_LoopLine(k) == run.out[Len(heap) + 2 + k]

\* what has been attempted is the list up to the current position, each once
C13_InOrder ==
    run.pc \in {"loop", "done"} =>
        /\ run.index \in 1..(Len(run.transactions) + 1)
        /\ run.attempted = SubSeq(run.transactions, 1, run.index - 1)
        /\ Len(run.out) >= Len(heap) + 2 + (run.index - 1)
        /\ \A k \in 1..(run.index - 1) :
              \/ C13_LoopLine(k) = ProcessedLine(run.transactions[k])
              \/ /\ C13_LoopLine(k).stream = "error"
                 /\ C13_LoopLine(k).text[1] = "Failed to process transaction: "

\* a failure is logged with its message and leaves the loop running
C13_FailureLogged ==
    (call.op = "processTransaction" /\ ~Returned) =>
        /\ C13_LoopLine(run.index - 1) = FailedLine(call.outcome)
        /\ call.args = run.transactions[run.index - 1]
        /\ run.pc = "loop" => Len(run.out) = Len(heap) + 2 + (run.index - 1)

\* the report comes after the whole list, and shows the balances then held
C13_Report ==
    run.pc = "done" =>
        /\ run.attempted = run.transactions
        /\ Len(run.out) = Len(heap) + 2 + Len(run.transactions) + 1 + Len(accounts)
        /\ run.out[Len(heap) + 2 + Len(run.transactions) + 1]
              = ConsoleLog(<<"\nFinal Account Balances:">>)
        /\ \A i \in 1..Len(accounts) :
              run.out[Len(heap) + 2 + Len(run.transactions) + 1 + i]
                 = AccountLine(heap[accounts[i].value])

\* no transfer ends the run: only a read that throws does, before the loop
C13_OnlyReadsEndTheRun ==
    run.pc = "failed" =>
        /\ call.op \in {"readAccountBalances", "readTransactions"}
        /\ run.transactions = <<>>
        /\ run.attempted = <<>>
\* the transactions file is missing: the run has ended in the catch block around
\* all of main, after the accounts were read and before any line was printed
C13_WitnessReadFailed ==
    /\ run.pc = "failed"
    /\ call.op = "readTransactions"
    /\ Len(heap) > 0
    /\ call.outcome = FileSystemError(TRANSACTIONS_PATH, "read",
           <<"ENOENT: no such file or directory, open '", TRANSACTIONS_PATH, "'">>)
    /\ run.out = <<ConsoleError(<<"Error processing files:", call.outcome.message>>)>>

\* the reader of the sources has refused a well-formed accounts file, for the
\* companyId main does not pass
C13_WitnessNoCompanyId ==
    /\ run.pc = "failed"
    /\ call.op = "readAccountBalances"
    /\ call.outcome = FileSystemError(ACCOUNTS_PATH, "read", <<"issues", <<"companyId">>>>)


(***************************************************************************)
(* A caller that keeps the collection it constructed the plain service     *)
(* from: it constructs a second service from the same collection, and it   *)
(* calls withdraw and deposit on the AccountEntity objects it holds.  The  *)
(* constructor stores the objects of the collection themselves, so the     *)
(* Map of the second service holds the references the first one holds.     *)
(***************************************************************************)
\* new BankingService(collection).processTransaction(transaction)
SecondProcessTransaction ==
    /\ ~tenantAware
    /\ \E transaction \in TransactionEntities(FALSE) :
          LET second == BankingServiceConstructor(heap, Len(heap))
          IN  Called("second.processTransaction", transaction,
                     processTransaction(second, heap, transaction))

\* collection[i].withdraw(amount)
CallerWithdraw ==
    \E i \in 1..Len(heap), amount \in 1..MaxAmount :
        LET w == withdraw(heap[i], amount)
        IN  Called("caller.withdraw", [object |-> i, amount |-> amount],
                   [heap |-> [heap EXCEPT ![i] = w.account], outcome |-> w.outcome])

\* the money the objects of the collection hold together
RECURSIVE HeldTogether(_, _)
HeldTogether(objects, n) ==
    IF n = 0 THEN 0 ELSE HeldTogether(objects, n - 1) + objects[n].balance

\* collection[i].deposit(amount); the money followed is capped at MaxHeld
CallerDeposit ==
    \E i \in 1..Len(heap), amount \in 1..MaxAmount :
        /\ Held(HeldTogether(heap, Len(heap)) + amount)
        /\ Called("caller.deposit", [object |-> i, amount |-> amount],
                  [heap |-> [heap EXCEPT ![i] = deposit(heap[i], amount)], outcome |-> Void])

NextShared ==
    \/ SecondProcessTransaction
    \/ CallerWithdraw
    \/ CallerDeposit
    \/ GetAccountBalance

InitShared == Init /\ ~tenantAware

SpecShared == InitShared /\ [][NextShared]_vars

(***************************************************************************)
(* C22 as claimed: ledgers are isolated from each other and from their     *)
(* caller: a transfer processed on a second ledger constructed from the    *)
(* same collection, or a withdraw or deposit made by the caller on a       *)
(* record of that collection, does not change any balance the first        *)
(* ledger's getAccountBalance returns.                                     *)
(***************************************************************************)
C22_Outside == call.op \in {"second.processTransaction", "caller.withdraw", "caller.deposit"}

C22_AsClaimed ==
    C22_Outside =>
        \A n \in AccountNumbers :
            getAccountBalance(accounts, heap, n).outcome
                = getAccountBalance(accounts, call.before, n).outcome

\* what the code does: the first ledger reports whatever the shared objects hold
C22_Shared ==
    \A n \in AccountNumbers :
        Has(n) => getAccountBalance(accounts, heap, n).outcome
                     = Return(heap[MapGet(accounts, n)].balance)

\* the first ledger has reported a balance that a transfer on the second ledger changed
C22_Witness ==
    /\ call.op = "getAccountBalance" /\ Returned
    /\ net = [i \in 1..Len(heap) |-> 0]
    /\ call.outcome.value # initial[MapGet(accounts, call.args.accountNumber)]

(***************************************************************************)
(* Balances and amounts as the code holds them: JavaScript Numbers, that   *)
(* is IEEE-754 binary64 values.  A Number n >= 0 is written in binary as   *)
(* Limbs groups of LimbBits digits, last group first: the digit at         *)
(* position p (1 = last) has weight 2^(p - 1 - FractionBits).  Every       *)
(* Number met here is a multiple of 2^(-FractionBits): the smallest        *)
(* amount, 0.01, lies in [2^-7, 2^-6) and has 53 significant digits, the   *)
(* last of weight 2^-59; sums and differences of such multiples are such   *)
(* multiples.  No value reaches 2^(Width - FractionBits), far below the    *)
(* overflow threshold, and none is subnormal.                              *)
(***************************************************************************)
Precision == 53
FractionBits == 61
LimbBits == 12
Limbs == 7
Base == 2 ^ LimbBits
Width == Limbs * LimbBits

NumberZero == [i \in 1..Limbs |-> 0]

\* the binary digit of x at position p
Bit(x, p) == (x[((p - 1) \div LimbBits) + 1] \div (2 ^ ((p - 1) % LimbBits))) % 2

\* the position of the leading 1 of x, 0 for zero
TopBit(x) ==
    IF x = NumberZero THEN 0
    ELSE LET first == CHOOSE i \in 1..Limbs : x[i] # 0 /\ \A j \in (i + 1)..Limbs : x[j] = 0
             digits == CHOOSE k \in 1..LimbBits : 2 ^ (k - 1) <= x[first] /\ x[first] < 2 ^ k
         IN  (first - 1) * LimbBits + digits

\* the exact sum of two Numbers, group by group from the last one
RECURSIVE BigAddFrom(_, _, _, _, _)
BigAddFrom(a, b, i, carry, sum) ==
    IF i > Limbs THEN sum
    ELSE BigAddFrom(a, b, i + 1, (a[i] + b[i] + carry) \div Base,
                    Append(sum, (a[i] + b[i] + carry) % Base))

BigAdd(a, b) == BigAddFrom(a, b, 1, 0, <<>>)

\* the exact difference a - b of two Numbers, a >= b
RECURSIVE BigSubFrom(_, _, _, _, _)
BigSubFrom(a, b, i, borrow, difference) ==
    IF i > Limbs THEN difference
    ELSE BigSubFrom(a, b, i + 1, IF a[i] - b[i] - borrow < 0 THEN 1 ELSE 0,
                    Append(difference, (a[i] - b[i] - borrow + Base) % Base))

BigSub(a, b) == BigSubFrom(a, b, 1, 0, <<>>)

\* a >= b on Numbers
NumberGE(a, b) ==
    LET differ == {i \in 1..Limbs : a[i] # b[i]}
    IN  differ = {} \/ \E i \in differ : a[i] > b[i] /\ \A j \in differ : j <= i

\* IEEE-754 roundTiesToEven of the exact value x (+ a non-zero part below the
\* last digit when inexact) to Precision significant digits
RoundTiesToEven(x, inexact) ==
    LET cut == TopBit(x) - Precision
    IN  IF cut <= 0 THEN x
        ELSE LET half == Bit(x, cut) = 1
                 below == inexact \/ \E p \in 1..(cut - 1) : Bit(x, p) = 1
                 odd == Bit(x, cut + 1) = 1
                 whole == cut \div LimbBits
                 part == 2 ^ (cut % LimbBits)
                 kept == [i \in 1..Limbs |->
                            IF i <= whole THEN 0
                            ELSE IF i = whole + 1 THEN (x[i] \div part) * part
                            ELSE x[i]]
                 ulp == [i \in 1..Limbs |-> IF i = whole + 1 THEN part ELSE 0]
             IN  IF half /\ (below \/ odd) THEN BigAdd(kept, ulp) ELSE kept

\* a + b and a - b as the code computes them
NumberAdd(a, b) == RoundTiesToEven(BigAdd(a, b), FALSE)

NumberSub(a, b) == RoundTiesToEven(BigSub(a, b), FALSE)

\* cents * 2^FractionBits, exactly
Scaled(cents) ==
    LET shifted == cents * (2 ^ (FractionBits % LimbBits))
        first == (FractionBits \div LimbBits) + 1
    IN  [i \in 1..Limbs |->
            IF i = first THEN shifted % Base
            ELSE IF i = first + 1 THEN shifted \div Base
            ELSE 0]

\* x divided by 100, group by group from the first one: the quotient so far
\* (first group first) and the remainder
RECURSIVE DivideBy100(_, _, _, _)
DivideBy100(x, i, rest, quotient) ==
    IF i = 0 THEN [quotient |-> quotient, rest |-> rest]
    ELSE DivideBy100(x, i - 1, (rest * Base + x[i]) % 100,
                     Append(quotient, (rest * Base + x[i]) \div 100))

\* the Number a decimal literal with two decimals denotes (5000.00, 0.01,
\* 4999.99): the binary64 value nearest to cents / 100
NumberOfCents(cents) ==
    LET divided == DivideBy100(Scaled(cents), Limbs, 0, <<>>)
        quotient == [i \in 1..Limbs |-> divided.quotient[Limbs + 1 - i]]
    IN  RoundTiesToEven(quotient, divided.rest # 0)

(***************************************************************************)
(* The account entity and the plain service over Numbers: the same code,   *)
(* with >=, -= and += being the binary64 operations.                       *)
(***************************************************************************)
canWithdrawNumber(account, amount) == NumberGE(account.balance, amount)

withdrawNumber(account, amount) ==
    IF ~canWithdrawNumber(account, amount)
    THEN [account |-> account, outcome |-> Error("Insufficient funds")]
    ELSE [account |-> [account EXCEPT !.balance = NumberSub(@, amount)], outcome |-> Void]

depositNumber(account, amount) == [account EXCEPT !.balance = NumberAdd(@, amount)]

processTransactionNumber(accts, objects, transaction) ==
    LET fromAccount == MapGet(accts, transaction.fromAccount)
        toAccount == MapGet(accts, transaction.toAccount)
    IN  IF fromAccount = Undefined \/ toAccount = Undefined
        THEN [heap |-> objects,
              outcome |-> AccountNotFoundError(IF fromAccount = Undefined
                                               THEN transaction.fromAccount
                                               ELSE transaction.toAccount)]
        ELSE IF ~canWithdrawNumber(objects[fromAccount], transaction.amount)
        THEN [heap |-> objects,
              outcome |-> InsufficientFundsError(objects[fromAccount].accountNumber,
                                                 transaction.amount,
                                                 objects[fromAccount].balance)]
        ELSE LET w == withdrawNumber(objects[fromAccount], transaction.amount)
                 afterWithdraw == [objects EXCEPT ![fromAccount] = w.account]
             IN  IF w.outcome.kind = "throw"
                 THEN [heap |-> afterWithdraw, outcome |-> w.outcome]
                 ELSE [heap |-> [afterWithdraw EXCEPT ![toAccount] =
                                    depositNumber(afterWithdraw[toAccount], transaction.amount)],
                       outcome |-> Void]

(***************************************************************************)
(* The plain service over two accounts whose balances, and the amounts     *)
(* moved, are whole numbers of cents written as decimal literals.  initial *)
(* and net count in cents; heap holds the Numbers; run.index counts the    *)
(* transfers requested, MaxTransactions at most.                           *)
(***************************************************************************)
CentAmounts == {1, 2}

\* the balances of the test suite's ledger (5000.00, 550.00) and small ones
CentLedgers == {<<500000, 55000>>, <<3, 5>>, <<10, 20>>}

CentCollections ==
    {<<[accountNumber |-> ACC_A, balance |-> cents[1]],
       [accountNumber |-> ACC_B, balance |-> cents[2]]>> : cents \in CentLedgers}

InitCents ==
    /\ tenantAware = FALSE
    /\ \E cents \in CentCollections :
          /\ heap = [i \in 1..Len(cents) |->
                        [cents[i] EXCEPT !.balance = NumberOfCents(@)]]
          /\ initial = [i \in 1..Len(cents) |-> cents[i].balance]
    /\ accounts = BankingServiceConstructor(heap, Len(heap))
    /\ call = [op |-> "constructor", args |-> <<>>, outcome |-> Void, before |-> heap]
    /\ net = [i \in 1..Len(heap) |-> 0]
    /\ run = NoRun

\* processTransaction(new TransactionEntity({fromAccount, toAccount, amount: cents / 100}))
ProcessTransactionCents ==
    /\ run.index < MaxTransactions
    /\ \E fromAccount \in AccountNumbers, toAccount \in AccountNumbers, cents \in CentAmounts :
          LET transaction == [fromAccount |-> fromAccount, toAccount |-> toAccount,
                              amount |-> NumberOfCents(cents)]
              inCents == [transaction EXCEPT !.amount = cents]
              result == processTransactionNumber(accounts, heap, transaction)
          IN  /\ heap' = result.heap
              /\ call' = [op |-> "processTransaction", args |-> inCents,
                          outcome |-> result.outcome, before |-> heap]
              /\ net' = IF result.outcome = Void THEN Booked(net, accounts, inCents) ELSE net
              /\ run' = [run EXCEPT !.index = @ + 1]
              /\ UNCHANGED <<tenantAware, accounts, initial>>

NextCents ==
    \/ ProcessTransactionCents
    \/ GetAccountBalance

SpecCents == InitCents /\ [][NextCents]_vars

(***************************************************************************)
(* C23 as claimed: amounts and balances that are whole numbers of cents    *)
(* stay exact: after any sequence of successful transfers with such        *)
(* amounts, each balance is exactly the Number written as its initial      *)
(* balance plus the credited amounts minus the debited amounts, with no    *)
(* rounding error.                                                         *)
(***************************************************************************)
C23_AsClaimed ==
    \A i \in 1..Len(heap) : heap[i].balance = NumberOfCents(initial[i] + net[i])

\* the example of the claim: one transfer of 0.01 from 5000.00 to 550.00 leaves
\* exactly 4999.99 and 550.01
C23_Scenario5 ==
    (/\ initial = <<500000, 55000>>
     /\ IsTransferCall /\ Returned
     /\ call.args = [fromAccount |-> ACC_A, toAccount |-> ACC_B, amount |-> 1]
     /\ \A i \in 1..Len(heap) : call.before[i].balance = NumberOfCents(initial[i]))
        => /\ heap[1].balance = NumberOfCents(499999)
           /\ heap[2].balance = NumberOfCents(55001)

\* the example has been run
C23_WitnessScenario5 ==
    /\ initial = <<500000, 55000>>
    /\ net = <<0 - 1, 1>>
    /\ IsTransferCall /\ Returned
    /\ heap[1].balance = NumberOfCents(499999)
    /\ heap[2].balance = NumberOfCents(55001)

\* 0.01 has been moved from a balance of 0.03 to a balance of 0.05, and the
\* balances are neither 0.02 nor 0.06
C23_Witness ==
    /\ initial = <<3, 5>> /\ net = <<0 - 1, 1>>
    /\ IsTransferCall /\ Returned
    /\ \A i \in 1..Len(heap) : call.before[i].balance = NumberOfCents(initial[i])
    /\ heap[1].balance = NumberSub(NumberOfCents(3), NumberOfCents(1))
    /\ heap[2].balance = NumberAdd(NumberOfCents(5), NumberOfCents(1))
    /\ heap[1].balance # NumberOfCents(2) /\ ~NumberGE(heap[1].balance, NumberOfCents(2))
    /\ heap[2].balance # NumberOfCents(6) /\ NumberGE(heap[2].balance, NumberOfCents(6))

\* a transfer of 0.02 has been refused for insufficient funds by an account
\* that holds 0.03 - 0.01
C23_WitnessRefused ==
    /\ initial = <<3, 5>> /\ net = <<0 - 1, 1>>
    /\ IsTransferCall /\ Threw("InsufficientFundsError")
    /\ call.outcome.message[6] = NumberSub(NumberOfCents(3), NumberOfCents(1))
    /\ call.args = [fromAccount |-> ACC_A, toAccount |-> ACC_B, amount |-> 2]

====
